---- MODULE Spec2Model ----
(***************************************************************************)
(* Verification model of alphaswarm's DEX swap execution                   *)
(* (UniswapClientBase.swap with the V2 and V3 backends, EVMClient.process) *)
(* and of SolanaClient.process / _wait_for_confirmation.                   *)
(*                                                                         *)
(* A Python Decimal d is represented by the integer d * DSCALE, that is    *)
(* by its value in units of 10^-DecPlaces.  Base-unit balances read from   *)
(* the chain, log amounts and the results of int() are plain integers.     *)
(***************************************************************************)
EXTENDS Integers, Sequences, FiniteSets, TLC

(* ------------------------------ bounds --------------------------------- *)

\* number of swap() calls followed in one behaviour
MaxCalls == 2

\* number of logs in a swap receipt
MaxLogs == 2

\* fractional digits carried by the Decimal representation
DecPlaces == 2

\* largest retry_count passed to _execute_with_retry besides the default
MaxRetryCount == 2
\* DEXFactory instances created
MaxFactories == 2
\* start() calls made on one agent client
MaxStarts == 2
\* stop() calls made on it from outside its message loops
MaxStops == 1
\* messages get_message delivers
MaxMessages == 2
\* EVMClient.process calls made on one wallet
MaxProcs == 2

(* ------------------------- arithmetic helpers -------------------------- *)

RECURSIVE Pow10(_)
Pow10(n) == IF n = 0 THEN 1 ELSE 10 * Pow10(n - 1)

DSCALE == Pow10(DecPlaces)

\* int(Decimal): truncation of a non-negative Decimal
DecimalToInt(d) == d \div DSCALE

\* the Decimal written n * 10^-places, e.g. Dec(150, 2) is Decimal("1.50")
Dec(n, places) == (n * DSCALE) \div Pow10(places)

(* ------------------------------ tokens --------------------------------- *)

\* addresses as the program sees them: checksum (mixed case) and lower case
Addresses == {"0xA0b8", "0xa0b8", "0xC02a", "0xc02a", "0xcC82", "0xcc82", "0xE055", "0xe055",
              "0x6B17", "0x6b17"}

\* str.lower() on an address
Lower(a) ==
    CASE a = "0xA0b8" -> "0xa0b8"
      [] a = "0xC02a" -> "0xc02a"
      [] a = "0xcC82" -> "0xcc82"
      [] a = "0xE055" -> "0xe055"
      [] a = "0x6B17" -> "0x6b17"
      [] OTHER -> a

USDC == [symbol |-> "USDC", address |-> "0xA0b8", decimals |-> 2, chain |-> "ethereum",
         is_native |-> FALSE]
WETH == [symbol |-> "WETH", address |-> "0xC02a", decimals |-> 1, chain |-> "ethereum",
         is_native |-> FALSE]
DAI == [symbol |-> "DAI", address |-> "0x6b17", decimals |-> 2, chain |-> "ethereum",
         is_native |-> FALSE]

\* the lower-case addresses in the order of Python's string comparison
LowerOrder == <<"0x6b17", "0xa0b8", "0xc02a", "0xcc82", "0xe055">>

\* a < b for two lower-case addresses
StrLess(a, b) ==
    LET Pos(x) == CHOOSE i \in 1..Len(LowerOrder) : LowerOrder[i] = x
    IN Pos(a) < Pos(b)

\* chain_config.wallet_address and another account on the chain
wallet_address == "0xcC82"
OtherAccount == "0xE055"

\* TokenInfo.convert_to_base_units: amount * 10**decimals, a Decimal (NewType
\* BaseUnit is the identity at run time, nothing is truncated)
convert_to_base_units(token, amount) == amount * Pow10(token.decimals)

\* TokenInfo.convert_from_base_units: Decimal(amount) / 10**decimals
convert_from_base_units(token, units) == (units * DSCALE) \div Pow10(token.decimals)

\* TokenInfo.to_amount / TokenAmount.__init__
to_amount(token, value) == [token_info |-> token, value |-> value]

\* TokenInfo.to_amount_from_base_units
to_amount_from_base_units(token, units) == to_amount(token, convert_from_base_units(token, units))

\* TokenAmount.base_units
base_units(ta) == convert_to_base_units(ta.token_info, ta.value)

\* variant of the equality that also compares the symbols
TokenInfoEq_WithSymbol(a, b) == a.address = b.address /\ a.chain = b.chain /\ a.symbol = b.symbol

\* TokenInfo.__eq__ between two TokenInfo
TokenInfoEq(a, b) == a.address = b.address /\ a.chain = b.chain

\* variant of __lt__ that compares the base units whatever the tokens
TokenAmountLt_AnyToken(a, b) == IF base_units(a) < base_units(b) THEN "true" ELSE "false"

\* TokenAmount.__lt__: "raise" on different tokens, else the comparison of base units
TokenAmountLt(a, b) ==
    IF ~TokenInfoEq(a.token_info, b.token_info) THEN "raise"
    ELSE IF base_units(a) < base_units(b) THEN "true" ELSE "false"

\* TokenAmount.__eq__ between two TokenAmount
TokenAmountEq(a, b) == TokenInfoEq(a.token_info, b.token_info) /\ base_units(a) = base_units(b)

\* TokenAmount.__le__: `self < other or self == other`
TokenAmountLe(a, b) ==
    LET lt == TokenAmountLt(a, b)
    IN IF lt = "raise" THEN "raise"
       ELSE IF lt = "true" \/ TokenAmountEq(a, b) THEN "true" ELSE "false"

\* the boolean `not r`, an exception passing through
NotOf(r) == CASE r = "raise" -> "raise" [] r = "true" -> "false" [] OTHER -> "true"

\* TokenAmount.__gt__: `not (self <= other)`
TokenAmountGt(a, b) == NotOf(TokenAmountLe(a, b))

\* TokenAmount.__ge__: `not (self < other)`
TokenAmountGe(a, b) == NotOf(TokenAmountLt(a, b))

\* TokenInfo.__eq__(other): False unless other is a TokenInfo
TokenInfoEqObject(a, other, otherType) ==
    IF otherType = "TokenInfo" THEN TokenInfoEq(a, other) ELSE FALSE

(* ----------------------------- slippage -------------------------------- *)

base_point == 10000

\* variant of the range check that refuses 100%
SlippageValid_UpperOpen(bps) == 0 <= bps /\ bps < base_point

\* Slippage.__init__: the range check
SlippageValid(bps) == 0 <= bps /\ bps <= base_point

\* Slippage.calculate_minimum_amount: int(Decimal(amount) * (1 - bps/10000)),
\* amount being a Decimal
calculate_minimum_amount(bps, amount) == (amount * (base_point - bps)) \div (base_point * DSCALE)

(* ------------------------------ receipts ------------------------------- *)

TRANSFER_SIG == "0xddf252ad"
OTHER_SIG == "0x8c5be1e5"

\* the logs a swap receipt may hold: address is the emitting contract
\* (checksum form), ntopics = len(topics), sig = topics[0], to = the last 40
\* hex digits of topics[2] (lower case), amount = int(data, 16)
LogSet ==
    { [address |-> "0xA0b8", ntopics |-> 3, sig |-> TRANSFER_SIG, to |-> "0xcc82", amount |-> 337],
      [address |-> "0xA0b8", ntopics |-> 3, sig |-> TRANSFER_SIG, to |-> "0xcc82", amount |-> 50],
      [address |-> "0xA0b8", ntopics |-> 3, sig |-> TRANSFER_SIG, to |-> "0xe055", amount |-> 7],
      [address |-> "0xC02a", ntopics |-> 3, sig |-> TRANSFER_SIG, to |-> "0xcc82", amount |-> 15],
      [address |-> "0xA0b8", ntopics |-> 3, sig |-> OTHER_SIG, to |-> "0xcc82", amount |-> 9],
      [address |-> "0xA0b8", ntopics |-> 4, sig |-> TRANSFER_SIG, to |-> "0xcc82", amount |-> 3] }

RECURSIVE SeqsUpTo(_, _)
SeqsUpTo(S, n) ==
    IF n = 0 THEN {<<>>}
    ELSE LET shorter == SeqsUpTo(S, n - 1)
         IN shorter \cup {Append(s, x) : s \in {t \in shorter : Len(t) = n - 1}, x \in S}

ReceiptLogs == SeqsUpTo(LogSet, MaxLogs)

\* variant of LogCounts that forgets the recipient test
LogCounts_AnyRecipient(log, token_address, user_address) ==
    /\ Lower(log.address) = Lower(token_address)
    /\ log.ntopics = 3
    /\ log.sig = TRANSFER_SIG

\* the condition of the loop body of _get_final_swap_amount_received
LogCounts(log, token_address, user_address) ==
    /\ Lower(log.address) = Lower(token_address)
    /\ log.ntopics = 3
    /\ log.sig = TRANSFER_SIG
    /\ Lower(log.to) = Lower(user_address)

\* the loop of _get_final_swap_amount_received: total_received over the logs
RECURSIVE total_received(_, _, _)
total_received(logs, token_address, user_address) ==
    IF logs = <<>> THEN 0
    ELSE (IF LogCounts(Head(logs), token_address, user_address) THEN Head(logs).amount ELSE 0)
         + total_received(Tail(logs), token_address, user_address)

\* UniswapClientBase._get_final_swap_amount_received: Decimal(total) / 10**decimals
get_final_swap_amount_received(logs, token_address, user_address, token_decimals) ==
    (total_received(logs, token_address, user_address) * DSCALE) \div Pow10(token_decimals)

(* ------------------------------- inputs -------------------------------- *)

\* quotes produced by get_token_price (amounts are Decimals)
QuoteSet ==
    { [id |-> 1, token_in |-> WETH, token_out |-> USDC, amount_in |-> Dec(150, 2), amount_out |-> Dec(137, 2)],
      [id |-> 2, token_in |-> WETH, token_out |-> USDC, amount_in |-> Dec(125, 2), amount_out |-> Dec(205, 2)] }

QuoteIds == {q.id : q \in QuoteSet}

\* slippage_bps values a caller passes
BpsSet == {0, 100, 10000, 10001}

\* balanceOf(wallet) of token_in, in base units
BalanceSet == {0, 12, 15, 40}

\* pool.liquidity read by the V3 backend
LiquiditySet == {0, 1000}

NoQuote == [id |-> 0, token_in |-> WETH, token_out |-> USDC, amount_in |-> 0, amount_out |-> 0]

(* ------------------------------- state --------------------------------- *)

VARIABLES
    version,        \* "v2" or "v3": the backend class of the client
    pc,             \* position of the current swap() call
    callNo,         \* number of swap() calls started so far
    quote,          \* the quote argument of the current call
    slippage_bps,   \* the slippage_bps argument of the current call
    in_balance,     \* balanceOf(wallet) of token_in read by the current call
    callTxs,        \* transactions the current call has submitted, in order
    receipts,       \* outcomes of wait_for_transaction in the current call
    swap_params,    \* arguments of the swap transaction once built
    swapLogs,       \* logs of the swap receipt
    amount_out,     \* value computed by _get_final_swap_amount_received
    result,         \* the SwapResult returned by the current call
    err,            \* the error the current call raised
    steps,          \* history: the steps the current call has completed
    callsWith,      \* history: swap() calls started, per quote
    consumed,       \* history: quotes for which an earlier call returned a SwapResult
    approveCount,   \* history: approve transactions submitted, per quote
    swapCount,      \* history: swap transactions submitted, per quote
    solPc,          \* position of SolanaClient.process
    timeout_sec,    \* local of _wait_for_confirmation
    status,         \* local of _wait_for_confirmation: last confirmation status
    chainStatus,    \* what the cluster reports for the signature
    polls,          \* history: get_signature_statuses calls made
    solErr,         \* the error SolanaClient.process raised, with its status
    rPc,            \* position of EVMClient._execute_with_retry
    retry_count,    \* its argument retry_count
    has_predicate,  \* whether a retry_predicate was passed
    rejected,       \* the results for which retry_predicate is true
    retries_left,   \* its local retries_left
    rResult,        \* the value it returned
    rHist,          \* history: the outcome of every func() invocation
    sleeps,         \* history: time.sleep calls made
    qPc,            \* position of get_token_price
    qVersion,       \* the Uniswap client serving the call: "v2" or "v3"
    chainPools,     \* what the V3 factory and pools hold, per fee tier
    pairAnswer,     \* what the V2 factory's getPair does
    qPrice,         \* the mid price the pool reports
    qAmountIn,      \* amount_in.value
    tierIdx,        \* _get_pool: the fee tier the loop is at
    max_liquidity,  \* _get_pool: local max_liquidity
    best_pool,      \* _get_pool: local best_pool (0 is None, else the tier of the pool)
    pair_address,   \* V2 _get_token_price: local pair_address
    qQuote,         \* the QuoteResult returned
    qErr,           \* the error get_token_price raised
    mPc,            \* position of get_markets_for_tokens
    mVersion,       \* the Uniswap client serving the call: "v2" or "v3"
    mTokens,        \* its argument tokens
    pairEnv,        \* what the factory holds and does for each pair of tokens
    mK,             \* the pair the nested loops are at, in loop order
    markets,        \* local markets, the list returned
    sPc,            \* position of the Slippage construction and computation
    sBps,           \* the argument bps of Slippage(bps)
    sAmount,        \* the argument amount of calculate_minimum_amount
    slippage,       \* the Slippage object, if one was created
    sErr,           \* the error Slippage(bps) raised
    sMin,           \* what calculate_minimum_amount returned
    tPc,            \* position of the TokenInfo / TokenAmount operation
    tokA,           \* a TokenInfo
    tokB,           \* a second object with the attributes of a TokenInfo
    tokBType,       \* the type of the second object
    valA,           \* the value of the TokenAmount on tokA
    valB,           \* the value of the TokenAmount on tokB
    tOp,            \* the operation applied
    tOut,           \* what a comparison did: "true", "false" or "raise"
    tUnits,         \* what convert_to_base_units returned
    jPc,            \* position of the JupiterClient.swap call
    jQuote,         \* its argument quote
    jBalance,       \* the wallet's balance of quote.token_in, as an amount
    jSubmitted,     \* whether the swap transaction was sent to the cluster
    jResult,        \* the SwapResult returned
    jErr,           \* the error the call raised
    dex_registry,   \* DEXFactory._dex_registry, the class attribute: name -> client class
    factories,      \* number of DEXFactory instances created so far
    fOp,            \* the last call on the factory and what it did
    fBuilt,         \* the clients create has built: (name, class) pairs
    registeredAt,   \* per name: number of instances existing when register_dex first stored it (-1: never)
    clientKind,     \* the client class: "base" (AlphaSwarmAgentClient.start) or "cron" (CronJobClient)
    max_history,    \* the attribute max_history
    lock,           \* the attribute _lock: "None" or "Lock"
    agent_lock,     \* the start() call holding _lock and _agent_lock in _process_message (0: free)
    message_buffer, \* _message_buffer: channel id -> list of ChatMessage
    aPc,            \* position of each start() call
    ctx,            \* the context each start() call is processing
    generated,      \* number of messages get_message has delivered
    stops,          \* number of stop() calls made from outside
    on_start_calls, \* number of calls of on_start
    on_stop_calls,  \* number of calls of on_stop
    stopsSince,     \* per start() call: calls of on_stop since its on_start returned
    exitCause,      \* per start() call: what ended its message loop
    exitRunning,    \* per start() call: is_running when the call ended
    agentInputs,    \* the messages passed to agent.process_message
    skipped,        \* the messages passed to skip_message, in order
    procDone,       \* the _process_message call completed last, until the next one begins
    stopResult,     \* what the last stop() from outside did
    alPc,           \* position of the AlchemyClient._make_request call
    attempt,        \* the loop variable attempt
    alRequests,     \* what each requests.post did, in order
    alDelays,       \* the arguments of time.sleep, in order
    alErr,          \* the exception _make_request raised
    alReturned,     \* the status of the response whose json was returned (0: none)
    txCount,        \* the node's transaction count of the wallet at the latest block
    mempool,        \* the process calls whose transaction is pending at the node
    ePc,            \* position of each EVMClient.process call
    nonce,          \* the nonce each call built its transaction with (-1: none)
    countSeen,      \* the count the node reported to each call (-1: no RPC call succeeded)
    receipt,        \* the status of each call's mined transaction (-1: not mined)
    eErr            \* the error each call raised

swapVars == <<version, pc, callNo, quote, slippage_bps, in_balance, callTxs, receipts,
              swap_params, swapLogs, amount_out, result, err, steps, callsWith,
              consumed, approveCount, swapCount>>

solVars == <<solPc, timeout_sec, status, chainStatus, polls, solErr>>

retryVars == <<rPc, retry_count, has_predicate, rejected, retries_left, rResult, rHist, sleeps>>

quoteVars == <<qPc, qVersion, chainPools, pairAnswer, qPrice, qAmountIn, tierIdx, max_liquidity,
               best_pool, pair_address, qQuote, qErr>>

marketVars == <<mPc, mVersion, mTokens, pairEnv, mK, markets>>

slipVars == <<sPc, sBps, sAmount, slippage, sErr, sMin>>

tokenVars == <<tPc, tokA, tokB, tokBType, valA, valB, tOp, tOut, tUnits>>

jupVars == <<jPc, jQuote, jBalance, jSubmitted, jResult, jErr>>

factoryVars == <<dex_registry, factories, fOp, fBuilt, registeredAt>>

agentVars == <<clientKind, max_history, lock, agent_lock, message_buffer, aPc, ctx, generated, stops,
               on_start_calls, on_stop_calls, stopsSince, exitCause, exitRunning, agentInputs,
               skipped, procDone, stopResult>>

alchemyVars == <<alPc, attempt, alRequests, alDelays, alErr, alReturned>>

processVars == <<txCount, mempool, ePc, nonce, countSeen, receipt, eErr>>

vars ==
    <<swapVars, solVars, retryVars, quoteVars, marketVars, slipVars,
      tokenVars, jupVars, factoryVars, agentVars, alchemyVars, processVars>>

\* what the actions of each operation leave alone
OutsideSwap ==
    <<solVars, retryVars, quoteVars, marketVars, slipVars,
      tokenVars, jupVars, factoryVars, agentVars, alchemyVars, processVars>>
OutsideSol ==
    <<swapVars, retryVars, quoteVars, marketVars, slipVars,
      tokenVars, jupVars, factoryVars, agentVars, alchemyVars, processVars>>
OutsideRetry ==
    <<swapVars, solVars, quoteVars, marketVars, slipVars,
      tokenVars, jupVars, factoryVars, agentVars, alchemyVars, processVars>>
OutsideQuote ==
    <<swapVars, solVars, retryVars, marketVars, slipVars,
      tokenVars, jupVars, factoryVars, agentVars, alchemyVars, processVars>>
OutsideMarkets ==
    <<swapVars, solVars, retryVars, quoteVars, slipVars,
      tokenVars, jupVars, factoryVars, agentVars, alchemyVars, processVars>>
OutsideSlippage ==
    <<swapVars, solVars, retryVars, quoteVars, marketVars,
      tokenVars, jupVars, factoryVars, agentVars, alchemyVars, processVars>>
OutsideToken ==
    <<swapVars, solVars, retryVars, quoteVars, marketVars,
      slipVars, jupVars, factoryVars, agentVars, alchemyVars, processVars>>
OutsideJupiter ==
    <<swapVars, solVars, retryVars, quoteVars, marketVars,
      slipVars, tokenVars, factoryVars, agentVars, alchemyVars, processVars>>
OutsideFactory ==
    <<swapVars, solVars, retryVars, quoteVars, marketVars,
      slipVars, tokenVars, jupVars, agentVars, alchemyVars, processVars>>
OutsideAgent ==
    <<swapVars, solVars, retryVars, quoteVars, marketVars,
      slipVars, tokenVars, jupVars, factoryVars, alchemyVars, processVars>>
OutsideAlchemy ==
    <<swapVars, solVars, retryVars, quoteVars, marketVars,
      slipVars, tokenVars, jupVars, factoryVars, agentVars, processVars>>
OutsideProcess ==
    <<swapVars, solVars, retryVars, quoteVars, marketVars,
      slipVars, tokenVars, jupVars, factoryVars, agentVars, alchemyVars>>
OutsideJupiterProcess ==
    <<swapVars, retryVars, quoteVars, marketVars, slipVars,
      tokenVars, factoryVars, agentVars, alchemyVars, processVars>>

NoParams == [built |-> FALSE, amount_in |-> 0, amount_out_minimum |-> 0, recipient |-> ""]
NoResult == [returned |-> FALSE, amount_out |-> 0, amount_in |-> 0]
Router == "router"

\* the canonical order of the steps of one swap
SwapSteps == <<"balance_checked", "approve_sent", "approve_confirmed", "swap_sent",
               "swap_confirmed", "reconciled", "returned">>

CallEnded == pc \in {"idle", "returned", "raised"}

InitSolana ==
    /\ solPc = "idle"
    /\ timeout_sec = 0
    /\ status = "None"
    /\ chainStatus = "None"
    /\ polls = 0
    /\ solErr = [raised |-> FALSE, kind |-> "none", status |-> "None"]

SwapStart(v) ==
    /\ version = v
    /\ pc = "idle"
    /\ callNo = 0
    /\ quote = NoQuote
    /\ slippage_bps = 0
    /\ in_balance = 0
    /\ callTxs = <<>>
    /\ receipts = <<>>
    /\ swap_params = NoParams
    /\ swapLogs = <<>>
    /\ amount_out = 0
    /\ result = NoResult
    /\ err = "none"
    /\ steps = <<>>
    /\ callsWith = [i \in QuoteIds |-> 0]
    /\ consumed = {}
    /\ approveCount = [i \in QuoteIds |-> 0]
    /\ swapCount = [i \in QuoteIds |-> 0]

\* no call of _execute_with_retry in progress
IdleRetry ==
    /\ rPc = "idle"
    /\ retry_count = 0
    /\ has_predicate = FALSE
    /\ rejected = {}
    /\ retries_left = 0
    /\ rResult = -1
    /\ rHist = <<>>
    /\ sleeps = 0

ZERO_ADDRESS == "0x0000"

\* settings.fee_tiers, and the pool the V3 factory holds for the pair at each
fee_tiers == <<500, 3000, 10000>>
PoolAddresses == <<"0xP500", "0xP3000", "0xP10000">>
NoQuoteResult == [pool_address |-> "", amount_in |-> 0, amount_out |-> 0]

\* what get_token_price works on while no call is in progress
QuoteLocals ==
    /\ tierIdx = 0
    /\ max_liquidity = 0
    /\ best_pool = 0
    /\ pair_address = ""
    /\ qQuote = NoQuoteResult
    /\ qErr = "none"

IdleQuote ==
    /\ qPc = "idle"
    /\ qVersion = "v3"
    /\ chainPools = [t \in 1..Len(fee_tiers) |-> [kind |-> "none", liquidity |-> 0]]
    /\ pairAnswer = ZERO_ADDRESS
    /\ qPrice = 0
    /\ qAmountIn = 0
    /\ QuoteLocals

\* the tokens get_markets_for_tokens is asked about, and their pairs
TokenSet == {USDC, WETH, DAI}
PairKey(t1, t2) == {Lower(t1.address), Lower(t2.address)}
PairKeys == {PairKey(p[1], p[2]) : p \in {q \in TokenSet \X TokenSet : q[1] # q[2]}}

\* a pair without any pool whose lookups succeed
NoMarket == [pair |-> "none", tiers |-> [t \in 1..Len(fee_tiers) |-> "none"]]

IdleMarkets ==
    /\ mPc = "idle"
    /\ mVersion = "v3"
    /\ mTokens = <<>>
    /\ pairEnv = [k \in PairKeys |-> NoMarket]
    /\ mK = 0
    /\ markets = <<>>

NoSlippage == [created |-> FALSE, bps |-> 0]

IdleSlippage ==
    /\ sPc = "idle"
    /\ sBps = 0
    /\ sAmount = <<>>
    /\ slippage = NoSlippage
    /\ sErr = "none"
    /\ sMin = <<>>

IdleToken ==
    /\ tPc = "idle"
    /\ tokA = USDC
    /\ tokB = USDC
    /\ tokBType = "TokenInfo"
    /\ valA = 0
    /\ valB = 0
    /\ tOp = "none"
    /\ tOut = "none"
    /\ tUnits = 0

IdleJupiter ==
    /\ jPc = "idle"
    /\ jQuote = NoQuote
    /\ jBalance = 0
    /\ jSubmitted = FALSE
    /\ jResult = NoResult
    /\ jErr = "none"

\* names a caller may pass to create and register_dex
DexNames == {"uniswap_v2", "uniswap_v3", "jupiter", "test_dex"}

\* the class attribute _dex_registry as the class statement builds it
dex_registry_default ==
    [n \in DexNames |->
        CASE n = "uniswap_v2" -> "UniswapClientV2"
          [] n = "uniswap_v3" -> "UniswapClientV3"
          [] n = "jupiter" -> "JupiterClient"
          [] OTHER -> "None"]

NoFactoryOp == [op |-> "none", via |-> "class", name |-> "", outcome |-> "none", client |-> "None"]

\* the factory as the import of the module leaves it
InitFactory ==
    /\ dex_registry = dex_registry_default
    /\ factories = 0
    /\ fOp = NoFactoryOp
    /\ fBuilt = {}
    /\ registeredAt = [n \in DexNames |-> -1]

\* the start() calls made on the client
Tasks == 1..MaxStarts

\* channel ids of the contexts get_message returns
Channels == {1, 2}

NoContext == [message |-> "", id |-> 1]
NoProcess == [path |-> "none", channel |-> 1]
NoStop == [outcome |-> "none", was_running |-> FALSE, on_stop |-> FALSE]

\* AlphaSwarmAgentClient.__init__, no start() call made yet
NewClient ==
    /\ lock = "None"
    /\ agent_lock = 0
    /\ message_buffer = [c \in Channels |-> <<>>]
    /\ aPc = [t \in Tasks |-> "idle"]
    /\ ctx = [t \in Tasks |-> NoContext]
    /\ generated = 0
    /\ stops = 0
    /\ on_start_calls = 0
    /\ on_stop_calls = 0
    /\ stopsSince = [t \in Tasks |-> 0]
    /\ exitCause = [t \in Tasks |-> "none"]
    /\ exitRunning = [t \in Tasks |-> FALSE]
    /\ agentInputs = {}
    /\ skipped = <<>>
    /\ procDone = NoProcess
    /\ stopResult = NoStop

IdleAgent ==
    /\ clientKind = "cron"
    /\ max_history = 1
    /\ NewClient

\* _make_request entered: the loop starts with attempt = 0
InitAlchemyCall ==
    /\ alPc = "request"
    /\ attempt = 0
    /\ alRequests = <<>>
    /\ alDelays = <<>>
    /\ alErr = "none"
    /\ alReturned = 0

\* the EVMClient.process calls made on the wallet
Procs == 1..MaxProcs

\* no process call made yet on a wallet with c transactions
NoProcessCall(c) ==
    /\ txCount = c
    /\ mempool = {}
    /\ ePc = [p \in Procs |-> "idle"]
    /\ nonce = [p \in Procs |-> -1]
    /\ countSeen = [p \in Procs |-> -1]
    /\ receipt = [p \in Procs |-> -1]
    /\ eErr = [p \in Procs |-> "none"]

IdleProcess == NoProcessCall(1)

Init ==
    /\ \E v \in {"v2", "v3"} : SwapStart(v)
    /\ InitSolana
    /\ IdleRetry
    /\ IdleQuote
    /\ IdleMarkets
    /\ IdleSlippage
    /\ IdleToken
    /\ IdleJupiter
    /\ InitFactory
    /\ IdleAgent
    /\ InitAlchemyCall
    /\ IdleProcess

(* ----------------------- UniswapClientBase.swap ------------------------ *)

Raise(e) ==
    /\ pc' = "raised"
    /\ err' = e

\* ExecuteTokenSwap.forward -> swap(quote, slippage_bps): entry of the call and
\* the balance reads; an RPC read may raise
SwapCall ==
    /\ CallEnded
    /\ callNo < MaxCalls
    /\ \E q \in QuoteSet, bps \in BpsSet, bal \in BalanceSet, rpc_ok \in BOOLEAN :
        /\ quote' = q
        /\ slippage_bps' = bps
        /\ callNo' = callNo + 1
        /\ callsWith' = [callsWith EXCEPT ![q.id] = @ + 1]
        /\ consumed' = IF result.returned THEN consumed \cup {quote.id} ELSE consumed
        /\ callTxs' = <<>>
        /\ receipts' = <<>>
        /\ swap_params' = NoParams
        /\ swapLogs' = <<>>
        /\ amount_out' = 0
        /\ result' = NoResult
        /\ steps' = <<>>
        /\ IF rpc_ok
           THEN /\ in_balance' = bal
                /\ pc' = "balances_read"
                /\ err' = "none"
           ELSE /\ in_balance' = 0
                /\ Raise("read_failed")
    /\ UNCHANGED <<version, approveCount, swapCount, OutsideSwap>>

\* variant of BalanceTooLow that truncates the required base units to an integer
BalanceTooLow_Truncated(q, bal) ==
    bal < DecimalToInt(base_units(to_amount(q.token_in, q.amount_in)))

\* the outcome of `in_balance < amount_in` in swap
BalanceTooLow(q, bal) ==
    TokenAmountLt(to_amount_from_base_units(q.token_in, bal), to_amount(q.token_in, q.amount_in)) = "true"

\* swap: if in_balance < amount_in: raise ValueError
BalanceCheck ==
    /\ pc = "balances_read"
    /\ IF BalanceTooLow(quote, in_balance)
       THEN /\ Raise("insufficient_balance")
            /\ UNCHANGED steps
       ELSE /\ pc' = "balance_checked"
            /\ steps' = Append(steps, "balance_checked")
            /\ UNCHANGED err
    /\ UNCHANGED <<version, callNo, quote, slippage_bps, in_balance, callTxs, receipts,
                   swap_params, swapLogs, amount_out, result, callsWith, consumed, approveCount,
                   swapCount, OutsideSwap>>

\* the value _approve_token_spending passes to ERC20Contract.approve
ApproveValue(q) == base_units(to_amount(q.token_in, q.amount_in))

\* variant of ApproveSend that does not wait for the approval to be confirmed
ApproveSend_SkipWait ==
    /\ pc = "balance_checked"
    /\ callTxs' = Append(callTxs, [kind |-> "approve", spender |-> Router,
                                   value |-> ApproveValue(quote)])
    /\ approveCount' = [approveCount EXCEPT ![quote.id] = @ + 1]
    /\ steps' = Append(steps, "approve_sent")
    /\ pc' = "approved"
    /\ UNCHANGED <<version, callNo, quote, slippage_bps, in_balance, receipts, swap_params,
                   swapLogs, amount_out, result, err, callsWith, consumed, swapCount, OutsideSwap>>

\* _swap -> _approve_token_spending -> ERC20Contract.approve -> EVMClient.process:
\* build, sign and send_raw_transaction; building or sending may raise
ApproveSend ==
    /\ pc = "balance_checked"
    /\ \E sent \in BOOLEAN :
        IF sent
        THEN /\ callTxs' = Append(callTxs, [kind |-> "approve", spender |-> Router,
                                            value |-> ApproveValue(quote)])
             /\ approveCount' = [approveCount EXCEPT ![quote.id] = @ + 1]
             /\ steps' = Append(steps, "approve_sent")
             /\ pc' = "approve_sent"
             /\ UNCHANGED err
        ELSE /\ Raise("rpc_error")
             /\ UNCHANGED <<callTxs, approveCount, steps>>
    /\ UNCHANGED <<version, callNo, quote, slippage_bps, in_balance, receipts, swap_params,
                   swapLogs, amount_out, result, callsWith, consumed, swapCount, OutsideSwap>>

\* what wait_for_transaction can give: a receipt with status 0 or 1, or an
\* exception (no receipt within the timeout)
WaitOutcomes ==
    { [received |-> TRUE, status |-> 1], [received |-> TRUE, status |-> 0],
      [received |-> FALSE, status |-> 0] }

\* variant of ProcessFails that does not look at the receipt's status
ProcessFails_IgnoresStatus(r) == ~r.received

\* EVMClient.process after send: raises when waiting raised or status == 0
ProcessFails(r) == ~r.received \/ r.status = 0

ProcessError(r) == IF r.received THEN "tx_failed" ELSE "wait_failed"

\* variant of ApproveWait that sends the approval again when it failed
ApproveWait_Resend ==
    /\ pc = "approve_sent"
    /\ \E r \in WaitOutcomes :
        /\ receipts' = Append(receipts, r)
        /\ IF ProcessFails(r)
           THEN /\ pc' = "balance_checked"
                /\ UNCHANGED steps
           ELSE /\ pc' = "approved"
                /\ steps' = Append(steps, "approve_confirmed")
    /\ UNCHANGED <<version, callNo, quote, slippage_bps, in_balance, callTxs, swap_params,
                   swapLogs, amount_out, result, err, callsWith, consumed, approveCount, swapCount,
                   OutsideSwap>>

\* EVMClient.process of the approve transaction: wait for the receipt, check status
ApproveWait ==
    /\ pc = "approve_sent"
    /\ \E r \in WaitOutcomes :
        /\ receipts' = Append(receipts, r)
        /\ IF ProcessFails(r)
           THEN /\ Raise(ProcessError(r))
                /\ UNCHANGED steps
           ELSE /\ pc' = "approved"
                /\ steps' = Append(steps, "approve_confirmed")
                /\ UNCHANGED err
    /\ UNCHANGED <<version, callNo, quote, slippage_bps, in_balance, callTxs, swap_params,
                   swapLogs, amount_out, result, callsWith, consumed, approveCount, swapCount, OutsideSwap>>

\* UniswapClientV2._swap: min_output_raw
SwapMinOutputV2(q, bps) ==
    calculate_minimum_amount(bps, convert_to_base_units(q.token_out, q.amount_out))

\* variant of SwapMinOutputV3 that passes raw_output without applying the slippage
SwapMinOutputV3_NoSlippage(q, bps) ==
    DecimalToInt(convert_to_base_units(q.token_out, q.amount_out))

\* UniswapClientV3._swap: raw_output, then min_output_raw
SwapMinOutputV3(q, bps) ==
    LET raw_output == convert_to_base_units(q.token_out, q.amount_out)
    IN calculate_minimum_amount(bps, raw_output)

\* the arguments of swapExactTokensForTokens (V2) / ExactInputSingleParams (V3)
SwapParams(ver, q, bps) ==
    [built |-> TRUE,
     amount_in |-> base_units(to_amount(q.token_in, q.amount_in)),
     amount_out_minimum |-> IF ver = "v2" THEN SwapMinOutputV2(q, bps) ELSE SwapMinOutputV3(q, bps),
     recipient |-> wallet_address]

\* what the code between the approval and the submission of the swap does:
\* V3 reads the pool (raw_fee, liquidity) and divides by the liquidity, both
\* backends construct Slippage(slippage_bps), read the latest block and build
\* the call (the libraries validate its arguments)
BuildOutcome(ver, bps, liq, reads_ok, build_ok) ==
    IF ver = "v3" /\ ~reads_ok THEN "rpc_error"
    ELSE IF ver = "v3" /\ liq = 0 THEN "division_by_zero"
    ELSE IF ~SlippageValid(bps) THEN "invalid_slippage"
    ELSE IF ~build_ok THEN "rpc_error"
    ELSE "built"

\* _swap after _approve_token_spending returned, up to the built swap call
SwapBuild ==
    /\ pc = "approved"
    /\ \E liq \in LiquiditySet, reads_ok \in BOOLEAN, build_ok \in BOOLEAN :
        LET outcome == BuildOutcome(version, slippage_bps, liq, reads_ok, build_ok)
        IN IF outcome = "built"
           THEN /\ swap_params' = SwapParams(version, quote, slippage_bps)
                /\ pc' = "built"
                /\ UNCHANGED err
           ELSE /\ Raise(outcome)
                /\ UNCHANGED swap_params
    /\ UNCHANGED <<version, callNo, quote, slippage_bps, in_balance, callTxs, receipts,
                   swapLogs, amount_out, result, steps, callsWith, consumed, approveCount, swapCount,
                   OutsideSwap>>

\* EVMClient.process of the swap call: build, sign and send_raw_transaction
SwapSend ==
    /\ pc = "built"
    /\ \E sent \in BOOLEAN :
        IF sent
        THEN /\ callTxs' = Append(callTxs, [kind |-> "swap",
                                            amount_in |-> swap_params.amount_in,
                                            amount_out_minimum |-> swap_params.amount_out_minimum,
                                            recipient |-> swap_params.recipient])
             /\ swapCount' = [swapCount EXCEPT ![quote.id] = @ + 1]
             /\ steps' = Append(steps, "swap_sent")
             /\ pc' = "swap_sent"
             /\ UNCHANGED err
        ELSE /\ Raise("rpc_error")
             /\ UNCHANGED <<callTxs, swapCount, steps>>
    /\ UNCHANGED <<version, callNo, quote, slippage_bps, in_balance, receipts, swap_params,
                   swapLogs, amount_out, result, callsWith, consumed, approveCount, OutsideSwap>>

\* variant of SwapWait that sends the swap again when it failed
SwapWait_Resend ==
    /\ pc = "swap_sent"
    /\ \E r \in WaitOutcomes, logs \in ReceiptLogs :
        /\ receipts' = Append(receipts, r)
        /\ IF ProcessFails(r)
           THEN /\ pc' = "built"
                /\ UNCHANGED <<steps, swapLogs>>
           ELSE /\ pc' = "swap_confirmed"
                /\ swapLogs' = logs
                /\ steps' = Append(steps, "swap_confirmed")
    /\ UNCHANGED <<version, callNo, quote, slippage_bps, in_balance, callTxs, swap_params,
                   amount_out, result, err, callsWith, consumed, approveCount, swapCount, OutsideSwap>>

\* EVMClient.process of the swap transaction: wait for the receipt, check status
SwapWait ==
    /\ pc = "swap_sent"
    /\ \E r \in WaitOutcomes, logs \in ReceiptLogs :
        /\ receipts' = Append(receipts, r)
        /\ IF ProcessFails(r)
           THEN /\ Raise(ProcessError(r))
                /\ UNCHANGED <<steps, swapLogs>>
           ELSE /\ pc' = "swap_confirmed"
                /\ swapLogs' = logs
                /\ steps' = Append(steps, "swap_confirmed")
                /\ UNCHANGED err
    /\ UNCHANGED <<version, callNo, quote, slippage_bps, in_balance, callTxs, swap_params,
                   amount_out, result, callsWith, consumed, approveCount, swapCount, OutsideSwap>>

\* swap: amount_out = self._get_final_swap_amount_received(receipts[1], ...)
Reconcile ==
    /\ pc = "swap_confirmed"
    /\ amount_out' = get_final_swap_amount_received(swapLogs, quote.token_out.address,
                                                    wallet_address, quote.token_out.decimals)
    /\ steps' = Append(steps, "reconciled")
    /\ pc' = "reconciled"
    /\ UNCHANGED <<version, callNo, quote, slippage_bps, in_balance, callTxs, receipts,
                   swap_params, swapLogs, result, err, callsWith, consumed, approveCount, swapCount,
                   OutsideSwap>>

\* swap: return SwapResult.build_success(amount_out, amount_in.value, tx_hash)
Return ==
    /\ pc = "reconciled"
    /\ result' = [returned |-> TRUE, amount_out |-> amount_out, amount_in |-> quote.amount_in]
    /\ steps' = Append(steps, "returned")
    /\ pc' = "returned"
    /\ UNCHANGED <<version, callNo, quote, slippage_bps, in_balance, callTxs, receipts,
                   swap_params, swapLogs, amount_out, err, callsWith, consumed, approveCount, swapCount,
                   OutsideSwap>>

Next ==
    \/ SwapCall
    \/ BalanceCheck
    \/ ApproveSend
    \/ ApproveWait
    \/ SwapBuild
    \/ SwapSend
    \/ SwapWait
    \/ Reconcile
    \/ Return

Spec == Init /\ [][Next]_vars

(* ------------------------ SolanaClient.process ------------------------- *)

initial_timeout == 30
sleep_sec == 2

\* tx_status.value[0] of get_signature_statuses: no entry for the signature
\* ("NoResponse"), an entry without confirmation status ("None"), or an entry
\* with one of the three confirmation statuses
Responses == {"NoResponse", "None", "processed", "confirmed", "finalized"}

\* how the cluster's answer for a submitted signature can move on
ClusterSuccessors(r) ==
    CASE r = "NoResponse" -> {"None", "processed"}
      [] r = "None" -> {"processed"}
      [] r = "processed" -> {"confirmed"}
      [] r = "confirmed" -> {"finalized"}
      [] OTHER -> {}

\* `status.Finalized`: the attribute Finalized looked up on an instance of the
\* enum TransactionConfirmationStatus is the class attribute, that is the
\* member Finalized, whatever the instance is
FinalizedAttr(st) == "finalized"

\* truth value of an enum member: an object defining neither __bool__ nor __len__
Truthy(member) == member \in {"processed", "confirmed", "finalized"}

\* _wait_for_confirmation: `status is not None and status.Finalized`
StatusEndsWait(st) == st # "None" /\ Truthy(FinalizedAttr(st))

\* variant of SleepDecrement that leaves the budget untouched
SleepDecrement_Stuck(t) == t

\* _wait_for_confirmation: timeout_sec -= sleep_sec
SleepDecrement(t) == t - sleep_sec

\* SolanaClient.process: sign, send the transaction (sending may raise), then
\* enter _wait_for_confirmation
SolSend ==
    /\ \E sent \in BOOLEAN :
        IF sent
        THEN /\ solPc' = "waiting"
             /\ timeout_sec' = initial_timeout
             /\ status' = "None"
             /\ chainStatus' = "NoResponse"
             /\ UNCHANGED solErr
        ELSE /\ solPc' = "raised"
             /\ solErr' = [raised |-> TRUE, kind |-> "send_failed", status |-> "None"]
             /\ UNCHANGED <<timeout_sec, status, chainStatus>>
    /\ UNCHANGED polls

\* SolanaClient.process called on its own
SolProcess ==
    /\ solPc = "idle"
    /\ SolSend
    /\ UNCHANGED OutsideSol

\* the cluster processes, confirms and finalizes the transaction on its own
ClusterProgress ==
    /\ solPc \in {"waiting", "sleeping"}
    /\ \E r \in ClusterSuccessors(chainStatus) : chainStatus' = r
    /\ UNCHANGED <<solPc, timeout_sec, status, polls, solErr, OutsideSol>>

\* one pass of the loop body up to the return or the warning: the status
\* query (which may raise) and the test that ends the wait
SolPoll ==
    /\ solPc = "waiting"
    /\ timeout_sec > 0
    /\ polls' = polls + 1
    /\ \E rpc_ok \in BOOLEAN :
        IF ~rpc_ok
        THEN /\ solPc' = "raised"
             /\ solErr' = [raised |-> TRUE, kind |-> "rpc_error", status |-> status]
             /\ UNCHANGED status
        ELSE LET newStatus == IF chainStatus = "NoResponse" THEN status ELSE chainStatus
             IN /\ status' = newStatus
                /\ solPc' = IF chainStatus # "NoResponse" /\ StatusEndsWait(newStatus)
                            THEN "returned" ELSE "sleeping"
                /\ UNCHANGED solErr
    /\ UNCHANGED <<timeout_sec, chainStatus, OutsideSol>>

\* the rest of the loop body: time.sleep(sleep_sec); timeout_sec -= sleep_sec
SolSleep ==
    /\ solPc = "sleeping"
    /\ timeout_sec' = SleepDecrement(timeout_sec)
    /\ solPc' = "waiting"
    /\ UNCHANGED <<status, chainStatus, polls, solErr, OutsideSol>>

\* the loop condition fails: raise RuntimeError(... Last status is {status})
SolTimeout ==
    /\ solPc = "waiting"
    /\ timeout_sec <= 0
    /\ solPc' = "raised"
    /\ solErr' = [raised |-> TRUE, kind |-> "timeout", status |-> status]
    /\ UNCHANGED <<timeout_sec, status, chainStatus, polls, OutsideSol>>

NextSol ==
    \/ SolProcess
    \/ ClusterProgress
    \/ SolPoll
    \/ SolSleep
    \/ SolTimeout

SpecSol == Init /\ [][NextSol]_vars

(* -------------------- EVMClient._execute_with_retry -------------------- *)

\* the default of the parameter retry_count
retry_count_default == 3

\* the values func() can return (a transaction count, a block)
RetValues == {0, 5}

\* what one invocation of func() does: raise, or return a value
FuncOutcomes == [exc : {TRUE}, value : {-1}] \cup [exc : {FALSE}, value : RetValues]

RetryCounts == (0..MaxRetryCount) \cup {retry_count_default}

\* variant that never retries on a result
RetryOnResult_Never(given, rej, r) == FALSE

\* `retry_predicate is not None and retry_predicate(result)`
RetryOnResult(given, rej, r) == given /\ r \in rej

\* a call _execute_with_retry(func, retry_count, retry_predicate) has been made
InitRetry ==
    /\ SwapStart("v3")
    /\ InitSolana
    /\ rPc = "called"
    /\ retry_count \in RetryCounts
    /\ has_predicate \in BOOLEAN
    /\ rejected \in (IF has_predicate THEN SUBSET RetValues ELSE {{}})
    /\ retries_left = 0
    /\ rResult = -1
    /\ rHist = <<>>
    /\ sleeps = 0
    /\ IdleQuote
    /\ IdleMarkets
    /\ IdleSlippage
    /\ IdleToken
    /\ IdleJupiter
    /\ InitFactory
    /\ IdleAgent
    /\ InitAlchemyCall
    /\ IdleProcess

\* retries_left = retry_count; retry_delay_sec = 0.1
RetryEnter ==
    /\ rPc = "called"
    /\ retries_left' = retry_count
    /\ rPc' = "loop"
    /\ UNCHANGED <<retry_count, has_predicate, rejected, rResult, rHist, sleeps, OutsideRetry>>

\* one pass of `while retries_left > 0`: sleep unless it is the first pass,
\* decrement, call func; an exception is logged, a result the predicate
\* rejects is logged too, any other result is returned
RetryAttempt ==
    /\ rPc = "loop"
    /\ retries_left > 0
    /\ sleeps' = IF retries_left # retry_count THEN sleeps + 1 ELSE sleeps
    /\ retries_left' = retries_left - 1
    /\ \E o \in FuncOutcomes :
        /\ rHist' = Append(rHist, o)
        /\ IF ~o.exc /\ ~RetryOnResult(has_predicate, rejected, o.value)
           THEN /\ rPc' = "returned"
                /\ rResult' = o.value
           ELSE UNCHANGED <<rPc, rResult>>
    /\ UNCHANGED <<retry_count, has_predicate, rejected, OutsideRetry>>

\* the loop condition fails: raise RuntimeError("Out of retries.")
RetryExhausted ==
    /\ rPc = "loop"
    /\ retries_left <= 0
    /\ rPc' = "raised"
    /\ UNCHANGED <<retry_count, has_predicate, rejected, retries_left, rResult, rHist, sleeps,
                   OutsideRetry>>

NextRetry ==
    \/ RetryEnter
    \/ RetryAttempt
    \/ RetryExhausted

SpecRetry == InitRetry /\ [][NextRetry]_vars

(* ------------------- get_token_price (Uniswap V2, V3) ------------------- *)

\* liquidity() of a pool
LiqValues == {0, 10, 30, 50}

\* one fee tier on the chain: no pool, a getPool call that raises, a pool with
\* its liquidity, or a pool whose liquidity() call raises
TierStates ==
    [kind : {"none", "lookup_raises", "liquidity_raises"}, liquidity : {0}]
        \cup [kind : {"pool"}, liquidity : LiqValues]

\* getPair of the V2 factory: the zero address, a pair, or a call that raises
PairAnswers == {ZERO_ADDRESS, "0xPa1r", "raise"}

PriceSet == {Dec(2, 0), Dec(5, 1)}
AmountInSet == {Dec(150, 2), Dec(4, 0)}

\* Decimal * Decimal
DecimalMul(a, b) == (a * b) \div DSCALE

\* FactoryContract.get_pool_address_or_none for the pair at fee tier t
get_pool_address_or_none(t) ==
    LET res == IF chainPools[t].kind = "none" THEN ZERO_ADDRESS ELSE PoolAddresses[t]
    IN IF res = ZERO_ADDRESS THEN "None" ELSE res

\* variant that also replaces the best pool on equal liquidity
Better_OrEqual(liquidity, max) == liquidity >= max

\* _get_pool: `pool.liquidity > max_liquidity`
Better(liquidity, max) == liquidity > max

\* variant that takes every getPair answer for a pair
PairMissing_Never(addr) == FALSE

\* V2 _get_token_price: `pair_address == ZERO_ADDRESS`
PairMissing(addr) == addr = ZERO_ADDRESS

\* a call get_token_price(token_out, amount_in) has been made
InitQuote ==
    /\ SwapStart("v3")
    /\ InitSolana
    /\ IdleRetry
    /\ qPc = "called"
    /\ qVersion \in {"v2", "v3"}
    /\ chainPools \in (IF qVersion = "v3" THEN [1..Len(fee_tiers) -> TierStates]
                       ELSE {[t \in 1..Len(fee_tiers) |-> [kind |-> "none", liquidity |-> 0]]})
    /\ pairAnswer \in (IF qVersion = "v2" THEN PairAnswers ELSE {ZERO_ADDRESS})
    /\ qPrice \in PriceSet
    /\ qAmountIn \in AmountInSet
    /\ QuoteLocals
    /\ IdleMarkets
    /\ IdleSlippage
    /\ IdleToken
    /\ IdleJupiter
    /\ InitFactory
    /\ IdleAgent
    /\ InitAlchemyCall
    /\ IdleProcess

\* V3 _get_pool: max_liquidity = 0; best_pool = None
GetPoolEnter ==
    /\ qPc = "called"
    /\ qVersion = "v3"
    /\ max_liquidity' = 0
    /\ best_pool' = 0
    /\ tierIdx' = 1
    /\ qPc' = "tiers"
    /\ UNCHANGED <<qVersion, chainPools, pairAnswer, qPrice, qAmountIn, pair_address, qQuote, qErr,
                   OutsideQuote>>

\* V3 _get_pool: the loop body for one fee tier; an exception of the lookup
\* or of the liquidity read is logged and the tier is skipped
GetPoolTier ==
    /\ qPc = "tiers"
    /\ tierIdx <= Len(fee_tiers)
    /\ tierIdx' = tierIdx + 1
    /\ LET tier == chainPools[tierIdx]
       IN IF tier.kind = "lookup_raises" \/ get_pool_address_or_none(tierIdx) = "None"
               \/ tier.kind = "liquidity_raises"
          THEN UNCHANGED <<max_liquidity, best_pool>>
          ELSE IF Better(tier.liquidity, max_liquidity)
               THEN /\ best_pool' = tierIdx
                    /\ max_liquidity' = tier.liquidity
               ELSE UNCHANGED <<max_liquidity, best_pool>>
    /\ UNCHANGED <<qPc, qVersion, chainPools, pairAnswer, qPrice, qAmountIn, pair_address, qQuote,
                   qErr, OutsideQuote>>

\* V3 _get_pool after the loop: return best_pool, or raise "No pool found"
GetPoolEnd ==
    /\ qPc = "tiers"
    /\ tierIdx > Len(fee_tiers)
    /\ IF best_pool # 0
       THEN /\ qPc' = "pool_selected"
            /\ UNCHANGED qErr
       ELSE /\ qPc' = "raised"
            /\ qErr' = "no_pool"
    /\ UNCHANGED <<qVersion, chainPools, pairAnswer, qPrice, qAmountIn, tierIdx, max_liquidity,
                   best_pool, pair_address, qQuote, OutsideQuote>>

\* V3 _get_token_price after _get_pool: read the price (the read may raise)
\* and build the QuoteResult
QuoteV3Price ==
    /\ qPc = "pool_selected"
    /\ \E rpc_ok \in BOOLEAN :
        IF rpc_ok
        THEN /\ qQuote' = [pool_address |-> PoolAddresses[best_pool], amount_in |-> qAmountIn,
                           amount_out |-> DecimalMul(qPrice, qAmountIn)]
             /\ qPc' = "returned"
             /\ UNCHANGED qErr
        ELSE /\ qPc' = "raised"
             /\ qErr' = "rpc_error"
             /\ UNCHANGED qQuote
    /\ UNCHANGED <<qVersion, chainPools, pairAnswer, qPrice, qAmountIn, tierIdx, max_liquidity,
                   best_pool, pair_address, OutsideQuote>>

\* V2 _get_token_price: getPair and the zero-address test
QuoteV2GetPair ==
    /\ qPc = "called"
    /\ qVersion = "v2"
    /\ IF pairAnswer = "raise"
       THEN /\ qPc' = "raised"
            /\ qErr' = "rpc_error"
            /\ UNCHANGED pair_address
       ELSE /\ pair_address' = pairAnswer
            /\ IF PairMissing(pairAnswer)
               THEN /\ qPc' = "raised"
                    /\ qErr' = "no_pair"
               ELSE /\ qPc' = "pair_found"
                    /\ UNCHANGED qErr
    /\ UNCHANGED <<qVersion, chainPools, pairAnswer, qPrice, qAmountIn, tierIdx, max_liquidity,
                   best_pool, qQuote, OutsideQuote>>

\* V2 _get_token_price: _get_price_from_pool (the reads may raise) and the
\* QuoteResult
QuoteV2Price ==
    /\ qPc = "pair_found"
    /\ \E rpc_ok \in BOOLEAN :
        IF rpc_ok
        THEN /\ qQuote' = [pool_address |-> pair_address, amount_in |-> qAmountIn,
                           amount_out |-> DecimalMul(qPrice, qAmountIn)]
             /\ qPc' = "returned"
             /\ UNCHANGED qErr
        ELSE /\ qPc' = "raised"
             /\ qErr' = "rpc_error"
             /\ UNCHANGED qQuote
    /\ UNCHANGED <<qVersion, chainPools, pairAnswer, qPrice, qAmountIn, tierIdx, max_liquidity,
                   best_pool, pair_address, OutsideQuote>>

NextQuote ==
    \/ GetPoolEnter
    \/ GetPoolTier
    \/ GetPoolEnd
    \/ QuoteV3Price
    \/ QuoteV2GetPair
    \/ QuoteV2Price

SpecQuote == InitQuote /\ [][NextQuote]_vars

(* ----------------- get_markets_for_tokens (Uniswap V2, V3) -------------- *)

\* getPair of the V2 factory for one pair: the zero address, a pair address,
\* or a call that raises whether or not the pair exists
V2PairKinds == {"none", "pair", "raises_none", "raises_pair"}

\* getPool of the V3 factory for one pair and fee tier: the zero address, a
\* pool address, or a call that raises
V3TierKinds == {"none", "pool", "raises"}

\* the lists of distinct tokens
TokenLists ==
    {l \in UNION {[1..n -> TokenSet] : n \in 0..Cardinality(TokenSet)} :
        \A i, j \in DOMAIN l : i # j => l[i] # l[j]}

\* `for i, token1 in enumerate(tokens): for token2 in tokens[i + 1:]`: the
\* index pairs visited, and the k-th of them
LoopPairs(n) == {p \in (1..n) \X (1..n) : p[1] < p[2]}
PairBefore(p, q) == p[1] < q[1] \/ (p[1] = q[1] /\ p[2] < q[2])
PairAt(n, k) ==
    CHOOSE p \in LoopPairs(n) : Cardinality({q \in LoopPairs(n) : PairBefore(q, p)}) = k - 1

\* the pairs of the list tokens
ListKeys(tokens) == {PairKey(tokens[p[1]], tokens[p[2]]) : p \in LoopPairs(Len(tokens))}

\* the environments for a list: only the pairs of the list matter
MarketEnvs(ver, tokens) ==
    LET kinds == IF ver = "v2"
                 THEN [pair : V2PairKinds, tiers : {NoMarket.tiers}]
                 ELSE [pair : {"none"}, tiers : [1..Len(fee_tiers) -> V3TierKinds]]
    IN {e \in [PairKeys -> kinds \cup {NoMarket}] :
            \A k \in PairKeys \ ListKeys(tokens) : e[k] = NoMarket}

\* variant that keeps the input order of the two tokens
LowerFirst_InputOrder(token1, token2) == TRUE

\* `token1.address.lower() < token2.address.lower()`
LowerFirst(token1, token2) == StrLess(Lower(token1.address), Lower(token2.address))

\* the tuple appended for a pair that has a market
OrderedPair(token1, token2) ==
    IF LowerFirst(token1, token2) THEN <<token1, token2>> ELSE <<token2, token1>>

\* V3: `for fee in fee_tiers` from tier t on: "pool" at the first pool
\* address, "raise" when a lookup raises before, "none" when the tiers run out
RECURSIVE ScanTiers(_, _)
ScanTiers(tiers, t) ==
    IF t > Len(fee_tiers) THEN "none"
    ELSE IF tiers[t] = "raises" THEN "raise"
    ELSE IF tiers[t] = "pool" THEN "pool"
    ELSE ScanTiers(tiers, t + 1)

\* a call get_markets_for_tokens(tokens) has been made
InitMarkets ==
    /\ SwapStart("v3")
    /\ InitSolana
    /\ IdleRetry
    /\ IdleQuote
    /\ mPc = "called"
    /\ mVersion \in {"v2", "v3"}
    /\ mTokens \in TokenLists
    /\ pairEnv \in MarketEnvs(mVersion, mTokens)
    /\ mK = 0
    /\ markets = <<>>
    /\ IdleSlippage
    /\ IdleToken
    /\ IdleJupiter
    /\ InitFactory
    /\ IdleAgent
    /\ InitAlchemyCall
    /\ IdleProcess

\* markets = []
MarketsEnter ==
    /\ mPc = "called"
    /\ markets' = <<>>
    /\ mK' = 1
    /\ mPc' = "pairs"
    /\ UNCHANGED <<mVersion, mTokens, pairEnv, OutsideMarkets>>

\* V2: the loop body for one pair: getPair, and the ordered append when the
\* answer is not the zero address; an exception is logged, the pair skipped
MarketsPairV2 ==
    /\ mPc = "pairs"
    /\ mVersion = "v2"
    /\ mK <= Cardinality(LoopPairs(Len(mTokens)))
    /\ LET p == PairAt(Len(mTokens), mK)
           token1 == mTokens[p[1]]
           token2 == mTokens[p[2]]
           kind == pairEnv[PairKey(token1, token2)].pair
           answer == IF kind = "none" THEN ZERO_ADDRESS ELSE "0xPa1r"
       IN IF kind \notin {"raises_none", "raises_pair"} /\ answer # ZERO_ADDRESS
          THEN markets' = Append(markets, OrderedPair(token1, token2))
          ELSE UNCHANGED markets
    /\ mK' = mK + 1
    /\ UNCHANGED <<mPc, mVersion, mTokens, pairEnv, OutsideMarkets>>

\* V3: the loop body for one pair: the fee tiers are tried in order up to the
\* first pool address; an exception is logged and the pair skipped
MarketsPairV3 ==
    /\ mPc = "pairs"
    /\ mVersion = "v3"
    /\ mK <= Cardinality(LoopPairs(Len(mTokens)))
    /\ LET p == PairAt(Len(mTokens), mK)
           token1 == mTokens[p[1]]
           token2 == mTokens[p[2]]
       IN IF ScanTiers(pairEnv[PairKey(token1, token2)].tiers, 1) = "pool"
          THEN markets' = Append(markets, OrderedPair(token1, token2))
          ELSE UNCHANGED markets
    /\ mK' = mK + 1
    /\ UNCHANGED <<mPc, mVersion, mTokens, pairEnv, OutsideMarkets>>

\* return markets
MarketsReturn ==
    /\ mPc = "pairs"
    /\ mK > Cardinality(LoopPairs(Len(mTokens)))
    /\ mPc' = "returned"
    /\ UNCHANGED <<mVersion, mTokens, pairEnv, mK, markets, OutsideMarkets>>

NextMarkets ==
    \/ MarketsEnter
    \/ MarketsPairV2
    \/ MarketsPairV3
    \/ MarketsReturn

SpecMarkets == InitMarkets /\ [][NextMarkets]_vars

(* ------------- Slippage(bps) and calculate_minimum_amount -------------- *)

\* integers of any size, as Python has them: the sequence of decimal digits,
\* least significant first, without leading zeros (0 is the empty sequence)
RECURSIVE NatDigits(_)
NatDigits(n) == IF n = 0 THEN <<>> ELSE <<n % 10>> \o NatDigits(n \div 10)

RECURSIVE StripZeros(_)
StripZeros(ds) ==
    IF ds = <<>> THEN <<>>
    ELSE IF ds[Len(ds)] = 0 THEN StripZeros(SubSeq(ds, 1, Len(ds) - 1))
    ELSE ds

\* lead * 10^zeros + low, for digits lead and low
BigNat(lead, zeros, low) == <<low>> \o [i \in 1..(zeros - 1) |-> 0] \o <<lead>>

\* ds * k + carry for a small k
RECURSIVE MulCarry(_, _, _)
MulCarry(ds, k, carry) ==
    IF ds = <<>> THEN NatDigits(carry)
    ELSE LET v == ds[1] * k + carry
         IN <<v % 10>> \o MulCarry(Tail(ds), k, v \div 10)

MulSmall(ds, k) == StripZeros(MulCarry(ds, k, 0))

\* ds // 10^d and ds * 10^n
DropLow(ds, d) == IF d >= Len(ds) THEN <<>> ELSE SubSeq(ds, d + 1, Len(ds))
ShiftUp(ds, n) == IF ds = <<>> THEN <<>> ELSE [i \in 1..n |-> 0] \o ds

RECURSIVE Inc(_)
Inc(ds) ==
    IF ds = <<>> THEN <<1>>
    ELSE IF ds[1] < 9 THEN <<ds[1] + 1>> \o Tail(ds)
    ELSE <<0>> \o Inc(Tail(ds))

\* the precision of the decimal context the program runs under (the default)
decimal_prec == 28

\* the result of a Decimal operation is rounded to decimal_prec significant
\* digits, ROUND_HALF_EVEN: the coefficient kept and the number of digits dropped
RoundToPrec(ds) ==
    LET d == Len(ds) - decimal_prec
    IN IF d <= 0 THEN [coef |-> ds, dropped |-> 0]
       ELSE LET q == DropLow(ds, d)
                restZero == \A i \in 1..(d - 1) : ds[i] = 0
                up == \/ ds[d] > 5
                      \/ ds[d] = 5 /\ ~restZero
                      \/ ds[d] = 5 /\ restZero /\ q[1] % 2 = 1
            IN [coef |-> IF up THEN Inc(q) ELSE q, dropped |-> d]

\* Slippage.to_multiplier: Decimal(1) - Decimal(bps) / Decimal(base_point);
\* the quotient is exact and carries the fewest fractional digits that hold
\* it, the difference has the same number of them
to_multiplier(bps) ==
    LET places == CHOOSE e \in 0..4 :
                      /\ (bps * Pow10(e)) % base_point = 0
                      /\ \A f \in 0..(e - 1) : (bps * Pow10(f)) % base_point # 0
        quot == (bps * Pow10(places)) \div base_point
    IN [coef |-> Pow10(places) - quot, places |-> places]

\* Slippage.calculate_minimum_amount for an int amount of any size:
\* int(Decimal(amount) * self.to_multiplier()), the product being rounded by
\* the decimal context and int() truncating
MinimumAmountOfInt(bps, amount) ==
    LET m == to_multiplier(bps)
        product == RoundToPrec(MulSmall(amount, m.coef))
        exponent == product.dropped - m.places
    IN IF exponent >= 0 THEN ShiftUp(product.coef, exponent)
       ELSE DropLow(product.coef, 0 - exponent)

\* the arguments bps of Slippage(bps)
SlippageBpsSet == (0 - 2)..(base_point + 2)

\* the int amounts passed to calculate_minimum_amount
SlippageAmounts ==
    {NatDigits(0), NatDigits(1), NatDigits(7), NatDigits(1000), NatDigits(99999),
     BigNat(2, 24, 5), BigNat(1, 28, 1)}

\* Slippage(bps) is about to be constructed
InitSlippage ==
    /\ SwapStart("v3")
    /\ InitSolana
    /\ IdleRetry
    /\ IdleQuote
    /\ IdleMarkets
    /\ sPc = "start"
    /\ sBps \in SlippageBpsSet
    /\ sAmount \in SlippageAmounts
    /\ slippage = NoSlippage
    /\ sErr = "none"
    /\ sMin = <<>>
    /\ IdleToken
    /\ IdleJupiter
    /\ InitFactory
    /\ IdleAgent
    /\ InitAlchemyCall
    /\ IdleProcess

\* Slippage.__init__
SlippageNew ==
    /\ sPc = "start"
    /\ IF SlippageValid(sBps)
       THEN /\ slippage' = [created |-> TRUE, bps |-> sBps]
            /\ sPc' = "constructed"
            /\ UNCHANGED sErr
       ELSE /\ sErr' = "ValueError"
            /\ sPc' = "raised"
            /\ UNCHANGED slippage
    /\ UNCHANGED <<sBps, sAmount, sMin, OutsideSlippage>>

\* Slippage.calculate_minimum_amount(amount) on the object
SlippageCalculate ==
    /\ sPc = "constructed"
    /\ sMin' = MinimumAmountOfInt(slippage.bps, sAmount)
    /\ sPc' = "computed"
    /\ UNCHANGED <<sBps, sAmount, slippage, sErr, OutsideSlippage>>

NextSlippage ==
    \/ SlippageNew
    \/ SlippageCalculate

SpecSlippage == InitSlippage /\ [][NextSlippage]_vars

(* ------------------------ TokenInfo, TokenAmount ----------------------- *)

\* the TokenInfo values the operations are applied to
TokenInfos ==
    [symbol : {"USDC", "WETH"}, address : {"0xA0b8", "0xa0b8", "0xC02a"}, decimals : {1, 2},
     chain : {"ethereum", "base"}, is_native : BOOLEAN]

\* the type of the right-hand operand: a TokenInfo, or an object of another
\* class carrying the same attributes
OperandTypes == {"TokenInfo", "Other"}

\* TokenAmount values: 1.25 and 2
TokenValues == {Dec(125, 2), Dec(2, 0)}

\* two operands are at hand
InitToken ==
    /\ SwapStart("v3")
    /\ InitSolana
    /\ IdleRetry
    /\ IdleQuote
    /\ IdleMarkets
    /\ IdleSlippage
    /\ IdleJupiter
    /\ InitFactory
    /\ IdleAgent
    /\ InitAlchemyCall
    /\ IdleProcess
    /\ tPc = "start"
    /\ tokA \in TokenInfos
    /\ tokB \in TokenInfos
    /\ tokBType \in OperandTypes
    /\ valA \in TokenValues
    /\ valB \in TokenValues
    /\ tOp = "none"
    /\ tOut = "none"
    /\ tUnits = 0

\* what an operation leaves alone
TokenOperands == <<tokA, tokB, tokBType, valA, valB>>

\* TokenAmount(tokA, valA) < TokenAmount(tokB, valB)
AmountLt ==
    /\ tPc = "start"
    /\ tokBType = "TokenInfo"
    /\ tOut' = TokenAmountLt(to_amount(tokA, valA), to_amount(tokB, valB))
    /\ tOp' = "lt"
    /\ tPc' = "done"
    /\ UNCHANGED <<TokenOperands, tUnits, OutsideToken>>

\* TokenAmount(tokA, valA) <= TokenAmount(tokB, valB)
AmountLe ==
    /\ tPc = "start"
    /\ tokBType = "TokenInfo"
    /\ tOut' = TokenAmountLe(to_amount(tokA, valA), to_amount(tokB, valB))
    /\ tOp' = "le"
    /\ tPc' = "done"
    /\ UNCHANGED <<TokenOperands, tUnits, OutsideToken>>

\* TokenAmount(tokA, valA) > TokenAmount(tokB, valB)
AmountGt ==
    /\ tPc = "start"
    /\ tokBType = "TokenInfo"
    /\ tOut' = TokenAmountGt(to_amount(tokA, valA), to_amount(tokB, valB))
    /\ tOp' = "gt"
    /\ tPc' = "done"
    /\ UNCHANGED <<TokenOperands, tUnits, OutsideToken>>

\* TokenAmount(tokA, valA) >= TokenAmount(tokB, valB)
AmountGe ==
    /\ tPc = "start"
    /\ tokBType = "TokenInfo"
    /\ tOut' = TokenAmountGe(to_amount(tokA, valA), to_amount(tokB, valB))
    /\ tOp' = "ge"
    /\ tPc' = "done"
    /\ UNCHANGED <<TokenOperands, tUnits, OutsideToken>>

\* tokA == tokB
InfoEq ==
    /\ tPc = "start"
    /\ tOut' = IF TokenInfoEqObject(tokA, tokB, tokBType) THEN "true" ELSE "false"
    /\ tOp' = "eq"
    /\ tPc' = "done"
    /\ UNCHANGED <<TokenOperands, tUnits, OutsideToken>>

\* tokA.convert_to_base_units(valA)
ConvertToBaseUnits ==
    /\ tPc = "start"
    /\ tUnits' = convert_to_base_units(tokA, valA)
    /\ tOp' = "convert"
    /\ tPc' = "done"
    /\ UNCHANGED <<TokenOperands, tOut, OutsideToken>>

NextToken ==
    \/ AmountLt
    \/ AmountLe
    \/ AmountGt
    \/ AmountGe
    \/ InfoEq
    \/ ConvertToBaseUnits

SpecToken == InitToken /\ [][NextToken]_vars

(* ------------------------- JupiterClient.swap -------------------------- *)

\* balances the wallet may hold of the token sold, as amounts
JupiterBalances == {0, Dec(100, 2), Dec(150, 2), Dec(400, 2)}

\* status codes of the swap API
SwapApiStatuses == {200, 400}

InitJupiter ==
    /\ jPc = "called"
    /\ jQuote \in QuoteSet
    /\ jBalance \in JupiterBalances
    /\ jSubmitted = FALSE
    /\ jResult = NoResult
    /\ jErr = "none"
    /\ InitFactory
    /\ IdleAgent
    /\ InitAlchemyCall
    /\ IdleProcess
    /\ SwapStart("v3")
    /\ InitSolana
    /\ IdleRetry
    /\ IdleQuote
    /\ IdleMarkets
    /\ IdleSlippage
    /\ IdleToken

\* swap, first statement: _build_swap_transaction posts the quote to the swap
\* API and raises ApiException unless the status is 200
JupiterBuildSwapTransaction ==
    /\ jPc = "called"
    /\ \E status_code \in SwapApiStatuses :
        IF status_code # 200
        THEN /\ jPc' = "raised"
             /\ jErr' = "ApiException"
        ELSE /\ jPc' = "built"
             /\ UNCHANGED jErr
    /\ UNCHANGED <<jQuote, jBalance, jSubmitted, jResult, solVars, OutsideJupiterProcess>>

\* swap, second statement: self._client.process(...) signs and sends the
\* transaction and enters the wait for its confirmation
JupiterProcess ==
    /\ jPc = "built"
    /\ solPc = "idle"
    /\ SolSend
    /\ jPc' = "processing"
    /\ jSubmitted' = (solPc' = "waiting")
    /\ UNCHANGED <<jQuote, jBalance, jResult, jErr, OutsideJupiterProcess>>

\* process has returned the signature or raised: swap returns
\* SwapResult.build_success(quote.amount_out, quote.amount_in, ...) or
\* lets the error through
JupiterReturn ==
    /\ jPc = "processing"
    /\ solPc \in {"returned", "raised"}
    /\ IF solPc = "returned"
       THEN /\ jPc' = "returned"
            /\ jResult' = [returned |-> TRUE, amount_out |-> jQuote.amount_out,
                           amount_in |-> jQuote.amount_in]
            /\ UNCHANGED jErr
       ELSE /\ jPc' = "raised"
            /\ jErr' = "RuntimeError"
            /\ UNCHANGED jResult
    /\ UNCHANGED <<jQuote, jBalance, jSubmitted, solVars, OutsideJupiterProcess>>

NextJupiter ==
    \/ JupiterBuildSwapTransaction
    \/ JupiterProcess
    \/ ClusterProgress
    \/ SolPoll
    \/ SolSleep
    \/ SolTimeout
    \/ JupiterReturn

SpecJupiter == InitJupiter /\ [][NextJupiter]_vars

(* ----------------------------- DEXFactory ------------------------------ *)

\* client classes a caller may register
DexClasses == {"MockDex", "JupiterClient"}

\* names a caller registers
RegisterNames == {"test_dex", "jupiter"}

\* who a classmethod is called on: the class or one of the instances; cls is
\* DEXFactory either way
Callers == {"class"} \cup {"instance"} \X (1..factories)

\* variant of RegistryAfterRegister that rebuilds the registry around the
\* new entry
RegistryAfterRegister_Rebuild(reg, name, dex_class) ==
    [dex_registry_default EXCEPT ![name] = dex_class]

\* register_dex: cls._dex_registry[name] = dex_class
RegistryAfterRegister(reg, name, dex_class) ==
    [reg EXCEPT ![name] = dex_class]

\* DEXFactory(): the class defines no __init__ and no instance attribute
FactoryNew ==
    /\ factories < MaxFactories
    /\ factories' = factories + 1
    /\ fOp' = [NoFactoryOp EXCEPT !.op = "new"]
    /\ UNCHANGED <<dex_registry, fBuilt, registeredAt, OutsideFactory>>

\* register_dex(name, dex_class), called on the class or on an instance
FactoryRegisterDex ==
    /\ \E via \in Callers, name \in RegisterNames, dex_class \in DexClasses :
        /\ dex_registry' = RegistryAfterRegister(dex_registry, name, dex_class)
        /\ registeredAt' = IF registeredAt[name] = -1
                           THEN [registeredAt EXCEPT ![name] = factories]
                           ELSE registeredAt
        /\ fOp' = [op |-> "register_dex", via |-> via, name |-> name,
                   outcome |-> "returned", client |-> "None"]
    /\ UNCHANGED <<factories, fBuilt, OutsideFactory>>

\* create(dex_name, config, chain), called on the class or on an instance:
\* a name the registry lacks raises ValueError, any other is built by
\* from_config of the registered class
FactoryCreate ==
    /\ \E via \in Callers, dex_name \in DexNames :
        LET dex_client_class == dex_registry[dex_name]
        IN IF dex_client_class = "None"
           THEN /\ fOp' = [op |-> "create", via |-> via, name |-> dex_name,
                           outcome |-> "ValueError", client |-> "None"]
                /\ UNCHANGED fBuilt
           ELSE /\ fOp' = [op |-> "create", via |-> via, name |-> dex_name,
                           outcome |-> "returned", client |-> dex_client_class]
                /\ fBuilt' = fBuilt \cup {<<dex_name, dex_client_class>>}
    /\ UNCHANGED <<dex_registry, factories, registeredAt, OutsideFactory>>

NextFactory ==
    \/ FactoryNew
    \/ FactoryRegisterDex
    \/ FactoryCreate

SpecFactory == Init /\ [][NextFactory]_vars

(* ------------------ AlphaSwarmAgentClient, CronJobClient ---------------- *)

ClientKinds == {"base", "cron"}

\* values of the constructor argument max_history
MaxHistories == {1, 2}

\* messages the user types or message_generator returns
Messages == {"", "go", "quit", "QUIT"}

\* str.lower on the messages
MsgLower(m) == IF m = "QUIT" THEN "quit" ELSE m

\* CronJobClient: the default of should_process, len(input_str) > 0
ShouldProcess(m) == m # ""

\* the list slice buf[-n:]
Suffix(buf, n) ==
    IF n = 0 \/ Len(buf) <= n THEN buf ELSE SubSeq(buf, Len(buf) - n + 1, Len(buf))

\* _process_message: trim the history when it is longer than max_history
TrimHistory(buf, n) == IF Len(buf) > n THEN Suffix(buf, n) ELSE buf

ChatMessage(sender, content) == [sender |-> sender, content |-> content]

\* whether `await self.on_start()` can suspend the caller: CronJobClient.on_start
\* contains no await, the hook of another subclass may wait for I/O
OnStartSuspends(k) == IF k = "cron" THEN {FALSE} ELSE {FALSE, TRUE}

\* variant of AfterQuit that leaves the loop in both classes
AfterQuit_Break(k) == "break"

\* start: a "quit" message leaves the loop (break) in the base class and
\* restarts it (continue) in CronJobClient
AfterQuit(k) == IF k = "cron" THEN "continue" ELSE "break"

\* start() calls between the return of on_start and the end of the call
Looping(t) == aPc[t] \in {"get_message", "acquire", "agent", "bye"}

InitAgent ==
    /\ clientKind \in ClientKinds
    /\ max_history \in MaxHistories
    /\ NewClient
    /\ SwapStart("v3")
    /\ InitSolana
    /\ IdleRetry
    /\ IdleQuote
    /\ IdleMarkets
    /\ IdleSlippage
    /\ IdleToken
    /\ IdleJupiter
    /\ InitFactory
    /\ InitAlchemyCall
    /\ IdleProcess

\* start, up to the first point where the call can be suspended: the
\* already-started check, the call of on_start and, when on_start returns
\* without suspending, the assignment of _lock
AgentStart(t) ==
    /\ aPc[t] = "idle"
    /\ IF lock # "None"
       THEN /\ aPc' = [aPc EXCEPT ![t] = "raised"]
            /\ exitCause' = [exitCause EXCEPT ![t] = "already_started"]
            /\ UNCHANGED <<lock, on_start_calls, stopsSince>>
       ELSE /\ on_start_calls' = on_start_calls + 1
            /\ \E suspended \in OnStartSuspends(clientKind) :
                IF suspended
                THEN /\ aPc' = [aPc EXCEPT ![t] = "on_start"]
                     /\ UNCHANGED <<lock, stopsSince>>
                ELSE /\ lock' = "Lock"
                     /\ aPc' = [aPc EXCEPT ![t] = "get_message"]
                     /\ stopsSince' = [stopsSince EXCEPT ![t] = 0]
            /\ UNCHANGED exitCause
    /\ UNCHANGED <<clientKind, max_history, agent_lock, message_buffer, ctx, generated, stops,
                   on_stop_calls, exitRunning, agentInputs, skipped, procDone, stopResult,
                   OutsideAgent>>

\* start, resumed when on_start is done: on_start raised, or
\* self._lock = asyncio.Lock() and the loop is entered
AgentOnStartDone(t) ==
    /\ aPc[t] = "on_start"
    /\ \E returned \in BOOLEAN :
        IF returned
        THEN /\ lock' = "Lock"
             /\ aPc' = [aPc EXCEPT ![t] = "get_message"]
             /\ stopsSince' = [stopsSince EXCEPT ![t] = 0]
             /\ UNCHANGED exitCause
        ELSE /\ aPc' = [aPc EXCEPT ![t] = "raised"]
             /\ exitCause' = [exitCause EXCEPT ![t] = "on_start_error"]
             /\ UNCHANGED <<lock, stopsSince>>
    /\ UNCHANGED <<clientKind, max_history, agent_lock, message_buffer, ctx, generated, stops,
                   on_start_calls, on_stop_calls, exitRunning, agentInputs, skipped, procDone,
                   stopResult, OutsideAgent>>

\* stop: RuntimeError("Client not started") when _lock is None, otherwise
\* _lock = None and on_stop is called
StopBody ==
    IF lock = "None"
    THEN UNCHANGED <<lock, on_stop_calls, stopsSince>>
    ELSE /\ lock' = "None"
         /\ on_stop_calls' = on_stop_calls + 1
         /\ stopsSince' = [u \in Tasks |-> IF Looping(u) THEN stopsSince[u] + 1 ELSE stopsSince[u]]

\* start, the loop left by break or by an exception: the finally clause
\* awaits self.stop(), then the call ends
LeaveLoop(t, cause) ==
    /\ StopBody
    /\ aPc' = [aPc EXCEPT ![t] = "exited"]
    /\ exitCause' = [exitCause EXCEPT ![t] = cause]
    /\ exitRunning' = [exitRunning EXCEPT ![t] = (lock' # "None")]

\* start, the loop goes on to position p
StayInLoop(t, p) ==
    /\ aPc' = [aPc EXCEPT ![t] = p]
    /\ UNCHANGED <<lock, on_stop_calls, stopsSince, exitCause, exitRunning>>

\* the context get_message returns for message m on channel c: CronJobClient
\* hands a rejected message to skip_message and returns a "quit" context,
\* and its contexts carry the default id
Delivered(k, m, c) ==
    IF k = "cron"
    THEN [message |-> IF ShouldProcess(m) THEN m ELSE "quit", id |-> 1]
    ELSE [message |-> m, id |-> c]

\* one pass of the loop of start from the return of get_message to the next
\* suspension: get_message raises or returns a context; on "quit" the base
\* class awaits on_agent_response before the break and CronJobClient
\* restarts the loop; _process_message raises when _lock is None and
\* otherwise goes for the locks
AgentGetMessage(t) ==
    /\ aPc[t] = "get_message"
    /\ generated < MaxMessages
    /\ generated' = generated + 1
    /\ \E raised \in BOOLEAN, m \in Messages, c \in Channels :
        LET context == Delivered(clientKind, m, c)
        IN IF raised
           THEN /\ LeaveLoop(t, "get_message_error")
                /\ UNCHANGED <<ctx, skipped>>
           ELSE /\ skipped' = IF clientKind = "cron" /\ ~ShouldProcess(m)
                              THEN Append(skipped, [task |-> t, message |-> m, n |-> generated + 1])
                              ELSE skipped
                /\ IF MsgLower(context.message) = "quit"
                   THEN /\ StayInLoop(t, IF AfterQuit(clientKind) = "continue"
                                         THEN "get_message" ELSE "bye")
                        /\ UNCHANGED ctx
                   ELSE IF lock = "None"
                   THEN /\ LeaveLoop(t, "not_started")
                        /\ UNCHANGED ctx
                   ELSE /\ StayInLoop(t, "acquire")
                        /\ ctx' = [ctx EXCEPT ![t] = context]
    /\ UNCHANGED <<clientKind, max_history, agent_lock, message_buffer, stops, on_start_calls,
                   agentInputs, procDone, stopResult, OutsideAgent>>

\* start of the base class, resumed when on_agent_response(..., "bye") is
\* done: break, or the exception it raised, leaves the loop
AgentBye(t) ==
    /\ aPc[t] = "bye"
    /\ LeaveLoop(t, "quit")
    /\ UNCHANGED <<clientKind, max_history, agent_lock, message_buffer, ctx, generated, stops,
                   on_start_calls, agentInputs, skipped, procDone, stopResult, OutsideAgent>>

\* _process_message: the locks are taken, _format_message appends the user
\* message to the history of the channel and the agent is called
AgentAcquire(t) ==
    /\ aPc[t] = "acquire"
    /\ agent_lock = 0
    /\ agent_lock' = t
    /\ message_buffer' = [message_buffer EXCEPT
                             ![ctx[t].id] = Append(@, ChatMessage("user", ctx[t].message))]
    /\ agentInputs' = agentInputs \cup {ctx[t].message}
    /\ procDone' = NoProcess
    /\ aPc' = [aPc EXCEPT ![t] = "agent"]
    /\ UNCHANGED <<clientKind, max_history, lock, ctx, generated, stops, on_start_calls, on_stop_calls,
                   stopsSince, exitCause, exitRunning, skipped, stopResult, OutsideAgent>>

\* what the rest of _process_message meets: the agent answers and
\* on_agent_response returns; the agent raises; on_agent_response raises
\* (inside the try); the agent raises and on_agent_error raises too
ProcessOutcomes == {"response", "agent_error", "response_handler_error", "error_handler_error"}

\* the history of the channel when _process_message is left
BufferAfter(buf, outcome, n) ==
    LET answered == TrimHistory(Append(buf, ChatMessage("agent", "response")), n)
    IN CASE outcome = "response" -> answered
         [] outcome = "response_handler_error" -> Append(answered, ChatMessage("agent", "error"))
         [] OTHER -> Append(buf, ChatMessage("agent", "error"))

\* _process_message from the agent's answer to its end, the locks released,
\* and start up to its next suspension (asyncio.sleep(1), get_message)
AgentRespond(t) ==
    /\ aPc[t] = "agent"
    /\ \E outcome \in ProcessOutcomes :
        /\ message_buffer' = [message_buffer EXCEPT
                                 ![ctx[t].id] = BufferAfter(@, outcome, max_history)]
        /\ procDone' = [path |-> IF outcome = "response" THEN "response" ELSE "error",
                        channel |-> ctx[t].id]
        /\ IF outcome = "error_handler_error"
           THEN LeaveLoop(t, "handler_error")
           ELSE StayInLoop(t, "get_message")
    /\ agent_lock' = 0
    /\ UNCHANGED <<clientKind, max_history, ctx, generated, stops, on_start_calls, agentInputs,
                   skipped, stopResult, OutsideAgent>>

\* stop() called from outside the message loops
AgentStop ==
    /\ stops < MaxStops
    /\ stops' = stops + 1
    /\ StopBody
    /\ stopResult' = [outcome |-> IF lock = "None" THEN "RuntimeError" ELSE "stopped",
                      was_running |-> (lock # "None"),
                      on_stop |-> (on_stop_calls' # on_stop_calls)]
    /\ UNCHANGED <<clientKind, max_history, agent_lock, message_buffer, aPc, ctx, generated,
                   on_start_calls, exitCause, exitRunning, agentInputs, skipped, procDone,
                   OutsideAgent>>

NextAgent ==
    \/ \E t \in Tasks : AgentStart(t)
    \/ \E t \in Tasks : AgentOnStartDone(t)
    \/ \E t \in Tasks : AgentGetMessage(t)
    \/ \E t \in Tasks : AgentAcquire(t)
    \/ \E t \in Tasks : AgentRespond(t)
    \/ \E t \in Tasks : AgentBye(t)
    \/ AgentStop

SpecAgent == InitAgent /\ [][NextAgent]_vars

\* a CronJobClient on its own: its on_start never suspends and its loop has
\* no break
InitCron ==
    /\ InitAgent
    /\ clientKind = "cron"

NextCron ==
    \/ \E t \in Tasks : AgentStart(t)
    \/ \E t \in Tasks : AgentGetMessage(t)
    \/ \E t \in Tasks : AgentAcquire(t)
    \/ \E t \in Tasks : AgentRespond(t)
    \/ AgentStop

SpecCron == InitCron /\ [][NextCron]_vars

(* -------------------- AlchemyClient._make_request ---------------------- *)

max_retries == 3
base_delay == 1

\* response.status_code of the responses the API gives
StatusCodes == {200, 404, 429, 500}

\* one pass of the loop body, and the raise after the loop when it was the
\* last pass: requests.post raises or returns a response; a status other
\* than 429 returns response.json() or raises ApiException; 429 raises
\* ApiException on the last attempt and sleeps otherwise; every exception
\* raised inside the try is caught by `except Exception`
AlchemyRequest ==
    /\ alPc = "request"
    /\ attempt <= max_retries
    /\ \E post_raised \in BOOLEAN, status_code \in StatusCodes :
        LET returns == ~post_raised /\ status_code # 429 /\ status_code < 400
            sleeps_ == ~post_raised /\ status_code = 429 /\ attempt # max_retries
        IN /\ alRequests' = Append(alRequests,
                                   IF post_raised THEN [raised |-> TRUE, status_code |-> 0]
                                   ELSE [raised |-> FALSE, status_code |-> status_code])
           /\ alDelays' = IF sleeps_ THEN Append(alDelays, base_delay * (2 ^ attempt))
                          ELSE alDelays
           /\ IF returns
              THEN /\ alPc' = "returned"
                   /\ alReturned' = status_code
                   /\ UNCHANGED <<attempt, alErr>>
              ELSE IF attempt < max_retries
              THEN /\ attempt' = attempt + 1
                   /\ UNCHANGED <<alPc, alReturned, alErr>>
              ELSE /\ alPc' = "raised"
                   /\ alErr' = "RuntimeError"
                   /\ UNCHANGED <<attempt, alReturned>>
    /\ UNCHANGED OutsideAlchemy

NextAlchemy == AlchemyRequest

SpecAlchemy == Init /\ [][NextAlchemy]_vars

(* ------------------------- EVMClient.process --------------------------- *)

\* transaction counts of the wallet before the calls
InitialCounts == {0, 1, 7}

\* _execute_with_retry as a function of what the successive func() calls do:
\* whether it raised, the result it returned, the number of calls made and
\* whether one of them returned a result
RECURSIVE RetryResult(_, _, _, _, _, _)
RetryResult(outcomes, left, given, rej, calls, answered) ==
    IF left <= 0
    THEN [raised |-> TRUE, value |-> -1, calls |-> calls, answered |-> answered]
    ELSE LET o == outcomes[calls + 1]
         IN IF o.exc
            THEN RetryResult(outcomes, left - 1, given, rej, calls + 1, answered)
            ELSE IF RetryOnResult(given, rej, o.value)
            THEN RetryResult(outcomes, left - 1, given, rej, calls + 1, TRUE)
            ELSE [raised |-> FALSE, value |-> o.value, calls |-> calls + 1, answered |-> TRUE]

\* get_transaction_count: _execute_with_retry of the RPC call with the
\* default retry_count and retry_predicate=lambda r: r == 0
get_transaction_count(outcomes) ==
    RetryResult(outcomes, retry_count_default, TRUE, {0}, 0, FALSE)

\* variant of RpcTransactionCount that counts the pending transactions too
RpcTransactionCount_Pending(count, pending) == count + pending

\* eth.get_transaction_count(wallet_address) with the default block
\* identifier "latest": the mined transactions of the wallet
RpcTransactionCount(count, pending) == count

InitProcess ==
    /\ \E c \in InitialCounts : NoProcessCall(c)
    /\ SwapStart("v3")
    /\ InitSolana
    /\ IdleRetry
    /\ IdleQuote
    /\ IdleMarkets
    /\ IdleSlippage
    /\ IdleToken
    /\ IdleJupiter
    /\ InitFactory
    /\ IdleAgent
    /\ InitAlchemyCall

\* process, first statement: _build_transaction reads the latest block and
\* the fees, and builds the transaction with the nonce get_transaction_count
\* returns; no lock is taken
ProcessBuild(p) ==
    /\ ePc[p] = "idle"
    /\ \E block_ok \in BOOLEAN, excs \in [1..retry_count_default -> BOOLEAN] :
        LET outcomes == [i \in 1..retry_count_default |->
                            [exc |-> excs[i],
                             value |-> RpcTransactionCount(txCount, Cardinality(mempool))]]
            r == get_transaction_count(outcomes)
        IN IF ~block_ok
           THEN /\ ePc' = [ePc EXCEPT ![p] = "raised"]
                /\ eErr' = [eErr EXCEPT ![p] = "block_unavailable"]
                /\ UNCHANGED <<nonce, countSeen>>
           ELSE /\ countSeen' = [countSeen EXCEPT ![p] = IF r.answered THEN outcomes[1].value ELSE -1]
                /\ IF r.raised
                   THEN /\ ePc' = [ePc EXCEPT ![p] = "raised"]
                        /\ eErr' = [eErr EXCEPT ![p] = "out_of_retries"]
                        /\ UNCHANGED nonce
                   ELSE /\ ePc' = [ePc EXCEPT ![p] = "built"]
                        /\ nonce' = [nonce EXCEPT ![p] = r.value]
                        /\ UNCHANGED eErr
    /\ UNCHANGED <<txCount, mempool, receipt, OutsideProcess>>

\* the pending transactions a new transaction of p collides with
SameNonce(p) == {q \in mempool : nonce[q] = nonce[p]}

\* process: sign and send_raw_transaction; the node refuses a nonce below
\* the count, refuses or takes as a replacement a nonce that is pending,
\* and the call itself may fail
ProcessSend(p) ==
    /\ ePc[p] = "built"
    /\ \E accepted \in (IF nonce[p] < txCount THEN {FALSE} ELSE BOOLEAN) :
        IF accepted
        THEN /\ mempool' = (mempool \ SameNonce(p)) \cup {p}
             /\ ePc' = [ePc EXCEPT ![p] = "sent"]
             /\ UNCHANGED eErr
        ELSE /\ ePc' = [ePc EXCEPT ![p] = "raised"]
             /\ eErr' = [eErr EXCEPT ![p] = "send_rejected"]
             /\ UNCHANGED mempool
    /\ UNCHANGED <<txCount, nonce, countSeen, receipt, OutsideProcess>>

\* the chain includes the pending transaction that carries the next nonce;
\* it succeeds (status 1) or reverts (status 0)
ChainMine(p) ==
    /\ p \in mempool
    /\ nonce[p] = txCount
    /\ txCount' = txCount + 1
    /\ mempool' = mempool \ {p}
    /\ \E st \in {0, 1} : receipt' = [receipt EXCEPT ![p] = st]
    /\ UNCHANGED <<ePc, nonce, countSeen, eErr, OutsideProcess>>

\* process: wait_for_transaction returns the receipt or times out, and a
\* receipt with status 0 raises RuntimeError
ProcessWait(p) ==
    /\ ePc[p] = "sent"
    /\ IF receipt[p] = -1
       THEN /\ ePc' = [ePc EXCEPT ![p] = "raised"]
            /\ eErr' = [eErr EXCEPT ![p] = "timeout"]
       ELSE IF receipt[p] = 0
       THEN /\ ePc' = [ePc EXCEPT ![p] = "raised"]
            /\ eErr' = [eErr EXCEPT ![p] = "reverted"]
       ELSE /\ ePc' = [ePc EXCEPT ![p] = "returned"]
            /\ UNCHANGED eErr
    /\ UNCHANGED <<txCount, mempool, nonce, countSeen, receipt, OutsideProcess>>

NextProcess ==
    \/ \E p \in Procs : ProcessBuild(p)
    \/ \E p \in Procs : ProcessSend(p)
    \/ \E p \in Procs : ChainMine(p)
    \/ \E p \in Procs : ProcessWait(p)

SpecProcess == InitProcess /\ [][NextProcess]_vars

(* ------------------------------ properties ----------------------------- *)

IsPrefix(s, t) == Len(s) <= Len(t) /\ \A i \in 1..Len(s) : s[i] = t[i]

\* a receipt outcome that counts as a failed transaction
FailedOutcome(r) == ~r.received \/ r.status = 0

\* quote.amount_in in base units of token_in, as a Decimal
AmountInBaseUnits(q) == q.amount_in * Pow10(q.token_in.decimals)

\* C1: within one swap call the completed steps are always an initial part of
\* balance check, approve sent, approve confirmed, swap sent, swap confirmed,
\* reconciled, returned: none is skipped, reordered or repeated; the
\* transactions submitted are the approval and then the swap, and the
\* reconciliation happens only after both receipts had status 1.
C1_LinearOrder ==
    /\ IsPrefix(steps, SwapSteps)
    /\ Len(callTxs) = Cardinality({i \in DOMAIN steps : steps[i] \in {"approve_sent", "swap_sent"}})
    /\ \A i \in DOMAIN callTxs : callTxs[i].kind = (IF i = 1 THEN "approve" ELSE "swap")
    /\ (Len(steps) >= 5 =>
            /\ Len(receipts) = 2
            /\ \A i \in 1..2 : receipts[i].received /\ receipts[i].status = 1)
    /\ (result.returned <=> steps = SwapSteps)

C1_Witness == pc = "returned" /\ steps = SwapSteps /\ Len(callTxs) = 2

\* C2: when the balance read at the start of swap is below quote.amount_in,
\* the call ends with the insufficient-balance error and has submitted no
\* transaction.
C2_InsufficientBalance ==
    (pc \notin {"idle", "balances_read"} /\ err # "read_failed"
        /\ in_balance * DSCALE < AmountInBaseUnits(quote))
    => (pc = "raised" /\ err = "insufficient_balance" /\ callTxs = <<>>
        /\ ~swap_params.built /\ ~result.returned)

C2_Witness ==
    pc = "raised" /\ err = "insufficient_balance" /\ in_balance > 0 /\ callTxs = <<>>

\* C3: when the approve transaction fails (its receipt has status 0, waiting
\* for it raises, or sending it raises), swap has raised and no swap
\* transaction has been built or submitted.
C3_ApproveFailureAborts ==
    /\ (Len(receipts) >= 1 /\ FailedOutcome(receipts[1]))
        => (pc = "raised" /\ ~swap_params.built /\ Len(callTxs) = 1
            /\ callTxs[1].kind = "approve" /\ ~result.returned)
    /\ (pc = "raised" /\ steps = <<"balance_checked">>)
        => (~swap_params.built /\ callTxs = <<>> /\ ~result.returned)

C3_Witness ==
    /\ pc = "raised" /\ err = "tx_failed"
    /\ receipts = <<[received |-> TRUE, status |-> 0]>>
    /\ Len(callTxs) = 1

\* C4: a swap call with slippage_bps outside [0, 10000] fails with the
\* invalid-slippage error before any transaction has been submitted.
C4_InvalidSlippageBeforeAnyTx ==
    (callNo > 0 /\ (slippage_bps < 0 \/ slippage_bps > 10000))
    => callTxs = <<>>

\* C5: once a transaction of the swap has failed, it is the last one the call
\* submitted: nothing is sent after it, the call has raised and there is no
\* SwapResult.
C5_NoTxAfterFailure ==
    \A i \in DOMAIN receipts :
        FailedOutcome(receipts[i])
        => (i = Len(receipts) /\ Len(callTxs) = i /\ pc = "raised" /\ ~result.returned)

C5_Witness ==
    /\ Len(receipts) = 2 /\ receipts[1].status = 1
    /\ receipts[2] = [received |-> TRUE, status |-> 0]
    /\ pc = "raised" /\ Len(callTxs) = 2

C7_SwapArguments ==
    \A i \in DOMAIN callTxs :
        /\ callTxs[i].kind = "approve" =>
            /\ callTxs[i].spender = Router
            /\ callTxs[i].value = AmountInBaseUnits(quote)
        /\ callTxs[i].kind = "swap" =>
            /\ callTxs[i].amount_in = AmountInBaseUnits(quote)
            /\ callTxs[i].amount_out_minimum =
                   calculate_minimum_amount(slippage_bps,
                                            quote.amount_out * Pow10(quote.token_out.decimals))
            /\ i > 1
            /\ callTxs[i - 1].kind = "approve"
            /\ callTxs[i - 1].value = callTxs[i].amount_in

C7_Witness ==
    /\ Len(callTxs) = 2 /\ callTxs[2].kind = "swap"
    /\ slippage_bps = 100 /\ quote.id = 2
    /\ callTxs[2].amount_out_minimum = 202

\* sum of the amounts of the logs at the indices in I
RECURSIVE SumAmounts(_, _)
SumAmounts(logs, I) ==
    IF I = {} THEN 0
    ELSE LET i == CHOOSE j \in I : TRUE
         IN logs[i].amount + SumAmounts(logs, I \ {i})

\* the Transfer logs of token_out whose recipient is the wallet
CreditedLogs(logs, q) ==
    {i \in DOMAIN logs :
        /\ logs[i].sig = TRANSFER_SIG /\ logs[i].ntopics = 3
        /\ Lower(logs[i].address) = Lower(q.token_out.address)
        /\ Lower(logs[i].to) = Lower(wallet_address)}

\* C8: the amount_out of a returned SwapResult is the sum of the raw amounts
\* of the Transfer logs of the swap receipt emitted by token_out with the
\* wallet as recipient, divided by 10^decimals (0 when there is none); other
\* logs contribute nothing and the quoted amount is not used.
C8_AmountReconciled ==
    result.returned =>
        result.amount_out * Pow10(quote.token_out.decimals)
            = DSCALE * SumAmounts(swapLogs, CreditedLogs(swapLogs, quote))

C8_Witness ==
    /\ result.returned
    /\ Len(swapLogs) = 2
    /\ Cardinality(CreditedLogs(swapLogs, quote)) = 1
    /\ result.amount_out = Dec(337, 2)
    /\ result.amount_out # quote.amount_out

\* C9: SolanaClient.process returns only after a poll observed the
\* confirmation status finalized.
C9_ReturnsOnlyWhenFinalized == solPc = "returned" => status = "finalized"

\* C10: _wait_for_confirmation polls at most 15 times: the remaining budget is
\* 30 s minus 2 s per completed pass and never negative, and the timeout error
\* is raised after exactly 15 polls, carrying the last observed status.
C10_BoundedPolls ==
    /\ polls <= 15
    /\ timeout_sec >= 0
    /\ solPc = "waiting" => timeout_sec = 30 - 2 * polls
    /\ solPc = "sleeping" => timeout_sec = 30 - 2 * (polls - 1)
    /\ (solErr.kind = "timeout" => polls = 15 /\ timeout_sec = 0 /\ solErr.status = status)

C10_Witness == solPc = "raised" /\ solErr.kind = "timeout" /\ polls = 15

\* an invocation of func that ends the retry loop: no exception, and a result
\* the predicate (if given) does not reject
Accepted(o) == ~o.exc /\ ~(has_predicate /\ o.value \in rejected)

\* C11: _execute_with_retry invokes func at most retry_count times; what it
\* returns is the result of the first invocation that raised nothing and that
\* the predicate did not reject (so never a rejected result); it raises
\* "Out of retries." exactly after retry_count invocations none of which was
\* accepted, and the loop never goes on after an accepted one
C11_BoundedRetry ==
    /\ Len(rHist) <= retry_count
    /\ rPc = "returned" =>
          /\ Len(rHist) >= 1
          /\ Accepted(rHist[Len(rHist)])
          /\ rResult = rHist[Len(rHist)].value
          /\ \A i \in 1..(Len(rHist) - 1) : ~Accepted(rHist[i])
    /\ rPc = "raised" =>
          /\ Len(rHist) = retry_count
          /\ \A i \in 1..Len(rHist) : ~Accepted(rHist[i])
    /\ rPc = "loop" =>
          /\ retries_left = retry_count - Len(rHist)
          /\ \A i \in 1..Len(rHist) : ~Accepted(rHist[i])

\* a default call returns on its third attempt, after an exception and a
\* rejected result
C11_Witness ==
    /\ rPc = "returned"
    /\ retry_count = retry_count_default
    /\ Len(rHist) = 3
    /\ rHist[1].exc
    /\ ~rHist[2].exc /\ has_predicate /\ rHist[2].value \in rejected

\* the fee tiers at which _get_pool obtained a pool and its liquidity
FoundTiers == {t \in 1..Len(fee_tiers) : chainPools[t].kind = "pool"}

\* _get_pool has returned best_pool
PoolReturned == qVersion = "v3" /\ qPc \in {"pool_selected", "returned"}

\* C12: the pool _get_pool returns is one of the pools found, no found pool
\* has more liquidity, and no found pool at an earlier fee tier has as much
C12_MaxLiquidityFirst ==
    PoolReturned =>
        /\ best_pool \in FoundTiers
        /\ \A t \in FoundTiers : chainPools[t].liquidity <= chainPools[best_pool].liquidity
        /\ \A t \in FoundTiers :
              chainPools[t].liquidity = chainPools[best_pool].liquidity => best_pool <= t

\* tiers [500, 3000, 10000] with liquidities [10, 50, 30]: the fee-3000 pool
C12_Witness ==
    /\ PoolReturned
    /\ \A t \in 1..3 : chainPools[t].kind = "pool"
    /\ chainPools[1].liquidity = 10 /\ chainPools[2].liquidity = 50 /\ chainPools[3].liquidity = 30
    /\ fee_tiers[best_pool] = 3000

\* the fee tiers whose factory lookup yields a pool address
TiersWithPool == {t \in 1..Len(fee_tiers) : chainPools[t].kind \in {"pool", "liquidity_raises"}}

\* C13: once _get_pool has ended, it has raised the no-pool error exactly when
\* no fee tier yields a pool address; with a pool at some tier, whatever its
\* liquidity, a pool was returned
C13_NoPoolOnlyWithoutPools ==
    (qVersion = "v3" /\ qPc \in {"pool_selected", "returned", "raised"}) =>
        /\ (qErr = "no_pool") <=> (TiersWithPool = {})
        /\ TiersWithPool # {} => best_pool # 0

\* C15: V2 get_token_price raises the no-pair error and returns no quote
\* whenever getPair answers the zero address; a quote it returns carries the
\* non-zero address getPair answered and amount_out = price * amount_in
C15_V2PairOrError ==
    /\ (qVersion = "v2" /\ pairAnswer = ZERO_ADDRESS /\ qPc # "called") =>
          /\ qPc = "raised"
          /\ qErr = "no_pair"
          /\ qQuote = NoQuoteResult
    /\ (qVersion = "v2" /\ qPc = "returned") =>
          /\ pairAnswer # ZERO_ADDRESS
          /\ qQuote.pool_address = pairAnswer
          /\ qQuote.amount_out * DSCALE = qPrice * qAmountIn

\* a V2 quote for 1.50 tokens at price 0.5 on the pair the factory answered
C15_Witness ==
    /\ qVersion = "v2"
    /\ qPc = "returned"
    /\ qQuote.pool_address = "0xPa1r"
    /\ qAmountIn = Dec(150, 2)
    /\ qQuote.amount_out = Dec(75, 2)

\* the unordered pairs of input tokens
InputKeys == ListKeys(mTokens)

\* the pair has a pool: a V2 pair, or a V3 pool at some fee tier
HasPool(k) ==
    IF mVersion = "v2" THEN pairEnv[k].pair \in {"pair", "raises_pair"}
    ELSE \E t \in 1..Len(fee_tiers) : pairEnv[k].tiers[t] = "pool"

\* the lookups for the pair reach a pool before any of them raises
PoolLookedUp(k) ==
    IF mVersion = "v2" THEN pairEnv[k].pair = "pair"
    ELSE ScanTiers(pairEnv[k].tiers, 1) = "pool"

\* the tuples returned for the pair k
TuplesOf(k) == {n \in 1..Len(markets) : PairKey(markets[n][1], markets[n][2]) = k}

\* every returned tuple has the smaller lower-cased address first
TuplesOrdered ==
    \A n \in 1..Len(markets) :
        StrLess(Lower(markets[n][1].address), Lower(markets[n][2].address))

C16_SlippageRange ==
    sPc \in {"constructed", "computed", "raised"} =>
        IF 0 <= sBps /\ sBps <= 10000
        THEN slippage = [created |-> TRUE, bps |-> sBps] /\ sErr = "none"
        ELSE slippage = NoSlippage /\ sErr = "ValueError" /\ sPc = "raised"

\* Slippage(10000) exists and holds 10000
C16_Witness ==
    /\ sPc = "constructed"
    /\ sBps = 10000
    /\ slippage.created
    /\ slippage.bps = 10000

\* floor(amount * (10000 - bps) / 10000), computed exactly
FloorOfShare(bps, amount) == DropLow(MulSmall(amount, 10000 - bps), 4)

\* C17: for every bps in [0, 10000] and every non-negative int amount,
\* calculate_minimum_amount(amount) is floor(amount * (10000 - bps) / 10000);
\* so bps = 0 gives the amount back and bps = 10000 gives 0
C17_MinimumIsFloor ==
    sPc = "computed" =>
        /\ sMin = FloorOfShare(sBps, sAmount)
        /\ sBps = 0 => sMin = sAmount
        /\ sBps = 10000 => sMin = <<>>

\* the two computations of calculate_minimum_amount agree on the amounts the
\* swap passes it
MinimumAmountsAgree ==
    \A bps \in BpsSet \cap 0..base_point : \A q \in QuoteSet :
        LET units == DecimalToInt(q.amount_out * 10)
        IN NatDigits(calculate_minimum_amount(bps, units * DSCALE)) = MinimumAmountOfInt(bps, NatDigits(units))

\* C18: each of <, <=, > and >= applied to two TokenAmounts whose TokenInfo
\* differ in address or in chain raises, whatever the two values; none
\* returns a boolean
C18_MismatchRaises ==
    (/\ tPc = "done"
     /\ tOp \in {"lt", "le", "gt", "ge"}
     /\ (tokA.address # tokB.address \/ tokA.chain # tokB.chain)) => tOut = "raise"

\* 1.25 of a token on ethereum >= 2 of the same address on base: raised
C18_Witness ==
    /\ tPc = "done"
    /\ tOp = "ge"
    /\ tokA.address = tokB.address
    /\ tokA.chain = "ethereum" /\ tokB.chain = "base"
    /\ valA = Dec(125, 2) /\ valB = Dec(2, 0)
    /\ tOut = "raise"

\* C19: convert_to_base_units(value) is an integer, value * 10^decimals
\* truncated toward zero, also when value has more fractional digits than
\* the token has decimals
C19_BaseUnitsTruncated ==
    (tPc = "done" /\ tOp = "convert") =>
        tUnits = DecimalToInt(valA * Pow10(tokA.decimals)) * DSCALE

\* C20: tokA == tokB is true exactly when tokB is a TokenInfo with the address
\* and the chain of tokA; symbol, decimals and is_native play no part
C20_EqualityByAddressAndChain ==
    (tPc = "done" /\ tOp = "eq") =>
        (tOut = "true" <=>
            (tokBType = "TokenInfo" /\ tokA.address = tokB.address /\ tokA.chain = tokB.chain))

\* two TokenInfo differing in symbol, decimals and is_native compare equal
C20_Witness ==
    /\ tPc = "done"
    /\ tOp = "eq"
    /\ tOut = "true"
    /\ tokA.symbol # tokB.symbol
    /\ tokA.decimals # tokB.decimals
    /\ tokA.is_native # tokB.is_native

\* C21: JupiterClient.swap submits its transaction only when the wallet's
\* balance of token_in is at least quote.amount_in, and a call made with
\* less ends in the insufficient-balance error
C21_JupiterBalanceChecked ==
    /\ jSubmitted => jBalance >= jQuote.amount_in
    /\ (jPc \in {"returned", "raised"} /\ jBalance < jQuote.amount_in)
          => (jPc = "raised" /\ jErr = "InsufficientBalance")

\* C22: in UniswapClientV3._swap the price-impact computation never keeps a
\* swap from being built: once the approval is confirmed, with slippage_bps
\* in [0, 10000] and any pool liquidity (0 included), no call ends in an
\* error raised by the price-impact estimate
C22_PriceImpactAdvisory ==
    (/\ version = "v3"
     /\ pc = "raised"
     /\ \E i \in 1..Len(steps) : steps[i] = "approve_confirmed"
     /\ slippage_bps \in 0..base_point)
        => err # "division_by_zero"

\* C23: create with a name the registry lacks raises ValueError and builds no
\* client; a name stored by register_dex, on the class or on any instance, is
\* served by create from the class and from every instance with a client of
\* the class registered last; no operation removes an entry of the registry
C23_RegistryShared ==
    /\ fOp.op = "create" =>
          IF registeredAt[fOp.name] = -1 /\ dex_registry_default[fOp.name] = "None"
          THEN fOp.outcome = "ValueError" /\ fOp.client = "None"
          ELSE /\ fOp.outcome = "returned"
               /\ fOp.client = dex_registry[fOp.name]
               /\ fOp.client # "None"
    /\ \A n \in DexNames :
          (registeredAt[n] # -1 \/ dex_registry_default[n] # "None") => dex_registry[n] # "None"
    /\ \A b \in fBuilt : registeredAt[b[1]] # -1 \/ dex_registry_default[b[1]] # "None"

\* a name registered through one instance is built through an instance
\* created after the registration
C23_Witness ==
    /\ fOp.op = "create"
    /\ fOp.name = "test_dex"
    /\ fOp.outcome = "returned"
    /\ fOp.client = "MockDex"
    /\ fOp.via \in {"instance"} \X (1..factories)
    /\ registeredAt["test_dex"] >= 1
    /\ fOp.via[2] > registeredAt["test_dex"]

\* C24: when _process_message has completed, on the agent-response path or
\* on the error path, the history of the channel it worked on holds at most
\* max_history messages
C24_HistoryBounded ==
    procDone.path # "none" => Len(message_buffer[procDone.channel]) <= max_history

\* start() calls that passed the already-started check and have not ended
PassedCheck == {t \in Tasks : aPc[t] = "on_start" \/ Looping(t)}

\* C28: at any time at most one start() call on a client is past the
\* already-started check (starting, or in its message loop); every other
\* start() call has raised
C28_OneStartPasses == Cardinality(PassedCheck) <= 1

\* C29: a start() call that went through on_start and has left its message
\* loop ends with the client not running and with on_stop called exactly
\* once since its on_start; a stop() on a client that is not running raises
\* without calling on_stop
C29_StoppedOnceOnExit ==
    /\ \A t \in Tasks :
          aPc[t] = "exited" => (~exitRunning[t] /\ stopsSince[t] = 1)
    /\ (stopResult.outcome # "none" /\ ~stopResult.was_running)
          => (stopResult.outcome = "RuntimeError" /\ ~stopResult.on_stop)

\* the step in which get_message hands a message to skip_message
SkipStep == Len(skipped') = Len(skipped) + 1

\* C30: in CronJobClient the agent is called only with messages that
\* should_process accepted; a rejected message goes to skip_message, is not
\* sent to the agent, is not appended to the history and does not end the
\* loop: the client stays as running as it was and the call waits for the
\* next message
C30_SkippedNeverProcessed ==
    /\ [](clientKind = "cron" =>
            /\ \A m \in agentInputs : ShouldProcess(m)
            /\ \A c \in Channels : \A i \in 1..Len(message_buffer[c]) :
                  message_buffer[c][i].sender = "user" => ShouldProcess(message_buffer[c][i].content)
            /\ \A i \in 1..Len(skipped) : ~ShouldProcess(skipped[i].message))
    /\ [][(clientKind = "cron" /\ SkipStep) =>
            LET t == skipped'[Len(skipped')].task
            IN /\ aPc'[t] = "get_message"
               /\ exitCause'[t] = "none"
               /\ lock' = lock
               /\ message_buffer' = message_buffer
               /\ agentInputs' = agentInputs]_vars

\* a message was skipped, the client is still running and the same call has
\* had a later message processed by the agent
C30_Witness ==
    /\ clientKind = "cron"
    /\ lock = "Lock"
    /\ \E i \in 1..Len(skipped) :
          /\ skipped[i].n < generated
          /\ aPc[skipped[i].task] = "agent"

\* every requests.post of the call returned a response
AllResponses == \A i \in 1..Len(alRequests) : ~alRequests[i].raised

\* C26: _make_request retries only on status 429, after delays of 1, 2 and 4
\* seconds and with at most 4 requests, then raises ApiException; any other
\* status >= 400 raises ApiException after exactly one request, and a status
\* below 400 is returned after exactly one request
C26_RetryOnlyRateLimit ==
    (alPc \in {"returned", "raised"} /\ AllResponses) =>
        LET first == alRequests[1].status_code
        IN /\ Len(alRequests) <= max_retries + 1
           /\ \A i \in 1..(Len(alRequests) - 1) : alRequests[i].status_code = 429
           /\ first < 400 => (alPc = "returned" /\ Len(alRequests) = 1)
           /\ (first >= 400 /\ first # 429) =>
                 (alPc = "raised" /\ alErr = "ApiException" /\ Len(alRequests) = 1)
           /\ (\A i \in 1..Len(alRequests) : alRequests[i].status_code = 429) =>
                 (alPc = "raised" /\ alErr = "ApiException" /\ alDelays = <<1, 2, 4>>)

\* process call p holds a transaction that is built and not mined, on a
\* nonce equal to the node's present count
Unmined(p) == ePc[p] \in {"built", "sent"} /\ receipt[p] = -1 /\ nonce[p] = txCount

\* C25: process calls on one wallet are not serialized: while one call holds
\* a built, unmined transaction, a second call is free to build, and when it
\* does it reads the same transaction count and builds with the same nonce
C25_SameNonceRace ==
    /\ [](\A p, q \in Procs :
            (p # q /\ Unmined(p) /\ ePc[q] = "idle") => ENABLED ProcessBuild(q))
    /\ [][\A p, q \in Procs :
            (p # q /\ Unmined(p) /\ ePc[q] = "idle" /\ ePc'[q] = "built")
                => nonce'[q] = nonce[p]]_vars

\* two calls have sent transactions built with the same nonce
C25_Witness ==
    \E p, q \in Procs :
        /\ p # q
        /\ ePc[p] = "sent"
        /\ ePc[q] \in {"built", "sent"}
        /\ nonce[p] = nonce[q]
        /\ nonce[p] # -1

\* C27: a process call to which the node reported the wallet's transaction
\* count, 0 included, builds its transaction with that count as the nonce
C27_CountReturned ==
    \A p \in Procs :
        countSeen[p] # -1 => (nonce[p] = countSeen[p] /\ eErr[p] # "out_of_retries")

====
